---- MODULE Spec2Model ----
(***************************************************************************)
(* graphql-mocker: the background Coordinator with its per-tab Store, the  *)
(* popup UI Surface and the page's Interception Hook, as state machines.   *)
(*                                                                         *)
(* Every context runs its callbacks to completion, so one action is one    *)
(* handler.  JSON values are records [json |-> ...]; JSON text is a string.*)
(* A captured response keeps operationName, response and timestamp; query, *)
(* variables, url and duration are carried along unread by every handler   *)
(* and are left out.                                                       *)
(***************************************************************************)
EXTENDS Integers, Sequences, FiniteSets, TLC

VARIABLES
    \* ---- Coordinator (background service worker) ----
    stores,          \* stores: Map<number, Store>; NoStore where the tab has none
    globalSettings,  \* let globalSettings
    ports,           \* ports: Map<tabId, Map<role, Port>>
    conn,            \* the connections that exist: id -> [tab, role], or Closed
    loadPhase,       \* where loadStoresFromStorage stands: "settings", "session", "done"
    localRead,       \* result of the pending chrome.storage.local.get('settings')
    sessionRead,     \* result of the pending chrome.storage.session.get('state')
    localStorage,    \* chrome.storage.local:   key 'settings'
    sessionStorage,  \* chrome.storage.session: key 'state'
    badge,           \* chrome.action badge text per tab
    sent,            \* what the last handler posted to the port of each (tab, role)
    handled,         \* what the last Coordinator handler was given
    clock,           \* Date.now() of the page, a strictly increasing stamp
    restarts         \* how often the service worker was restarted

coordVars == <<stores, globalSettings, ports, conn, loadPhase, localRead, sessionRead,
               localStorage, sessionStorage, badge, sent, handled, clock, restarts>>

VARIABLES
    \* ---- UI Surface (popup of tab 1) ----
    ui,              \* App state: graphqlCustomResponses, settings, port; the import under way
    file,            \* the export file, as JSON text; Undefined while there is none
    toCoordinator,   \* messages the popup posted that the Coordinator has not handled yet
    toUI             \* messages posted to the popup's port that it has not handled yet

uiVars == <<ui, file, toCoordinator, toUI>>

VARIABLES
    \* ---- Interception Hook (page context) ----
    customGraphQLResponses,  \* const customGraphQLResponses = new Map()
    mockerSettings,          \* let mockerSettings
    xhrs,                    \* the page's XMLHttpRequest objects
    fetches,                 \* the page's window.fetch calls under way
    calls,                   \* how many calls the page has started
    call                     \* the call the page made last, and what came of it

hookVars == <<customGraphQLResponses, mockerSettings, xhrs, fetches, calls, call>>

VARIABLES
    \* ---- the page of tab 1: the injected script and the content script ----
    page,            \* window: the __GRAPHQL_MOCKER__ global, the message listeners
                     \* and the wrappers around fetch and XMLHttpRequest
    bridge           \* the content script: its `port` and what it has posted

pageVars == <<page, bridge>>

vars == <<coordVars, uiVars, hookVars, pageVars>>

----------------------------------------------------------------------------
\* Bounds of the model
MaxClock == 2
MaxList == 2
MaxRestarts == 1
MaxHistory == 11
MaxCalls == 2
MaxRuns == 2
MaxLosses == 2
MaxTraffic == 4
MaxRetries == 6
MaxEdits == 3
MaxPosted == 1
MaxRelay == 3
MaxReloads == 1

\* Program constants
RetentionCap == 10
MAX_RECONNECT_ATTEMPTS == 5

Tabs == {1, 2}
ConnIds == {1, 2}
OperationNames == {"GetUser", "unknown"}
Roles == {"popup", "content-script"}

\* JSON values
JsonNull == [json |-> "null"]
BodyA == [json |-> "userNull"]
BodyB == [json |-> "userAda"]
SyntaxError == [json |-> "SyntaxError"]

NoStore == [tabId |-> 0]
NoPort == 0
Closed == [tab |-> 0, role |-> "closed"]

\* A storage key holds no value (Undefined) or one value
Undefined == {}
Stored(v) == {v}
ValueOf(x) == CHOOSE v \in x : TRUE

DEFAULT_SETTINGS == [globalMockEnabled |-> TRUE, darkMode |-> TRUE]
SettingsValues == [globalMockEnabled : BOOLEAN, darkMode : BOOLEAN]

----------------------------------------------------------------------------
\* Sequences and insertion-ordered maps (a JS Map iterates in insertion order)
Take(s, n) == SubSeq(s, 1, IF Len(s) < n THEN Len(s) ELSE n)

MapHas(m, k) == \E i \in 1..Len(m) : m[i].key = k
MapIndex(m, k) == CHOOSE i \in 1..Len(m) : m[i].key = k
MapGet(m, k, default) == IF MapHas(m, k) THEN m[MapIndex(m, k)].val ELSE default
MapSet(m, k, v) ==
    IF MapHas(m, k)
    THEN [m EXCEPT ![MapIndex(m, k)] = [key |-> k, val |-> v]]
    ELSE Append(m, [key |-> k, val |-> v])
MapDelete(m, k) == SelectSeq(m, LAMBDA e : e.key # k)
MapValues(m) == [i \in 1..Len(m) |-> m[i].val]

RECURSIVE Flatten(_)
Flatten(ss) == IF ss = <<>> THEN <<>> ELSE Head(ss) \o Flatten(Tail(ss))

----------------------------------------------------------------------------
\* Store (one per tab).  Each operation yields the new store and the dumps it
\* handed to the registered callbacks, in order.
Store(tabId) ==
    [tabId |-> tabId,
     graphqlResponsesMap |-> <<>>,
     graphqlCustomResponsesMap |-> <<>>,
     settings |-> DEFAULT_SETTINGS]

graphqlResponses(st) == Flatten(MapValues(st.graphqlResponsesMap))

graphqlCustomResponses(st) == MapValues(st.graphqlCustomResponsesMap)

dump(st) ==
    [graphqlResponses |-> graphqlResponses(st),
     graphqlCustomResponses |-> graphqlCustomResponses(st),
     settings |-> st.settings]

Fired(st) == [store |-> st, dumps |-> <<dump(st)>>]

\* (mutant) the slice to the newest ten is forgotten
addGraphQLResponse_Unbounded(st, response) ==
    LET existing == MapGet(st.graphqlResponsesMap, response.operationName, <<>>)
    IN  Fired([st EXCEPT !.graphqlResponsesMap =
                   MapSet(@, response.operationName, <<response>> \o existing)])

addGraphQLResponse(st, response) ==
    LET existing == MapGet(st.graphqlResponsesMap, response.operationName, <<>>)
        updated == Take(<<response>> \o existing, RetentionCap)
    IN  Fired([st EXCEPT !.graphqlResponsesMap =
                   MapSet(@, response.operationName, updated)])

\* (mutant) the null body is stored like any other
setGraphQLCustomResponse_StoreNull(st, customResponse) ==
    Fired([st EXCEPT !.graphqlCustomResponsesMap =
               MapSet(@, customResponse.operationName, customResponse)])

setGraphQLCustomResponse(st, customResponse) ==
    IF customResponse.customResponse = JsonNull
    THEN Fired([st EXCEPT !.graphqlCustomResponsesMap =
                    MapDelete(@, customResponse.operationName)])
    ELSE Fired([st EXCEPT !.graphqlCustomResponsesMap =
                    MapSet(@, customResponse.operationName, customResponse)])

\* (mutant) the settings are set without calling the callbacks
setSettings_Silent(st, settings) ==
    [store |-> [st EXCEPT !.settings = settings], dumps |-> <<>>]

setSettings(st, settings) == Fired([st EXCEPT !.settings = settings])

\* (mutant) only the captured responses are cleared
clearAll_ResponsesOnly(st) == Fired([st EXCEPT !.graphqlResponsesMap = <<>>])

clearAll(st) ==
    Fired([st EXCEPT !.graphqlResponsesMap = <<>>, !.graphqlCustomResponsesMap = <<>>])

\* list.forEach(x => op(x)): the operations applied in order, their dumps appended
RECURSIVE addEach(_, _)
addEach(st, responses) ==
    IF responses = <<>> THEN [store |-> st, dumps |-> <<>>]
    ELSE LET one == addGraphQLResponse(st, Head(responses))
             rest == addEach(one.store, Tail(responses))
         IN  [store |-> rest.store, dumps |-> one.dumps \o rest.dumps]

RECURSIVE setEach(_, _)
setEach(st, customResponses) ==
    IF customResponses = <<>> THEN [store |-> st, dumps |-> <<>>]
    ELSE LET one == setGraphQLCustomResponse(st, Head(customResponses))
             rest == setEach(one.store, Tail(customResponses))
         IN  [store |-> rest.store, dumps |-> one.dumps \o rest.dumps]

Has(msg, field) == field \in DOMAIN msg

\* (mutant) a mock-set upserts into the table it finds
updateFrom_Merge(st, msg) ==
    LET done ==
          CASE msg.type = "graphql-response-captured" /\ Has(msg, "graphqlResponses") ->
                 addEach(st, msg.graphqlResponses)
            [] msg.type = "graphql-custom-response-update"
                 /\ Has(msg, "graphqlCustomResponses") ->
                 setEach(st, msg.graphqlCustomResponses)
            [] msg.type = "settings-update" /\ Has(msg, "settings") ->
                 setSettings(st, msg.settings)
            [] msg.type = "clear-all" -> clearAll(st)
            [] OTHER -> [store |-> st, dumps |-> <<>>]
    IN  [store |-> done.store, dumps |-> done.dumps \o <<dump(done.store)>>]

updateFrom(st, msg) ==
    LET done ==
          CASE msg.type = "graphql-response-captured" /\ Has(msg, "graphqlResponses") ->
                 addEach(st, msg.graphqlResponses)
            [] msg.type = "graphql-custom-response-update"
                 /\ Has(msg, "graphqlCustomResponses") ->
                 setEach([st EXCEPT !.graphqlCustomResponsesMap = <<>>],
                         msg.graphqlCustomResponses)
            [] msg.type = "settings-update" /\ Has(msg, "settings") ->
                 setSettings(st, msg.settings)
            [] msg.type = "clear-all" -> clearAll(st)
            [] OTHER -> [store |-> st, dumps |-> <<>>]
    IN  [store |-> done.store, dumps |-> done.dumps \o <<dump(done.store)>>]

toJSON(st) ==
    [tabId |-> st.tabId,
     graphqlResponses |-> graphqlResponses(st),
     graphqlCustomResponses |-> graphqlCustomResponses(st),
     settings |-> st.settings]

RECURSIVE restoreResponses(_, _)
restoreResponses(m, responses) ==
    IF responses = <<>> THEN m
    ELSE LET r == Head(responses)
             existing == MapGet(m, r.operationName, <<>>)
         IN  restoreResponses(MapSet(m, r.operationName, existing \o <<r>>),
                              Tail(responses))

RECURSIVE restoreCustomResponses(_, _)
restoreCustomResponses(m, customResponses) ==
    IF customResponses = <<>> THEN m
    ELSE restoreCustomResponses(
             MapSet(m, Head(customResponses).operationName, Head(customResponses)),
             Tail(customResponses))

setupFromState(st, state) ==
    Fired([st EXCEPT
             !.tabId = state.tabId,
             !.graphqlResponsesMap = restoreResponses(@, state.graphqlResponses),
             !.graphqlCustomResponsesMap =
                 restoreCustomResponses(@, state.graphqlCustomResponses),
             !.settings = state.settings])

----------------------------------------------------------------------------
\* Coordinator (background service worker)
NoPosts == [t \in Tabs |-> [r \in Roles |-> <<>>]]
NoPorts == [r \in Roles |-> NoPort]

\* (mutant) a missing Store is created for every tab that has none
getStore_EveryTab(ss, gs, tabId) ==
    IF ss[tabId] # NoStore THEN ss
    ELSE [t \in Tabs |-> IF ss[t] # NoStore THEN ss[t]
                         ELSE [Store(t) EXCEPT !.settings = gs]]

\* getStore: the tab's Store, created with the global settings when missing
getStore(ss, gs, tabId) ==
    IF ss[tabId] # NoStore THEN ss
    ELSE [ss EXCEPT ![tabId] = [Store(tabId) EXCEPT !.settings = gs]]

\* the message each callback registered in getStore sends for one dump
SnapshotOf(state, gs, target) ==
    [from |-> "datastore", to |-> target,
     msg |-> [type |-> "snapshot",
              graphqlResponses |-> state.graphqlResponses,
              graphqlCustomResponses |-> state.graphqlCustomResponses,
              settings |-> gs]]

\* (mutant) the extra message names no mock at all
DirectSnapshot_Empty(st, gs) ==
    [from |-> "datastore", to |-> "content-script",
     msg |-> [type |-> "snapshot",
              graphqlCustomResponses |-> <<>>,
              settings |-> gs]]

\* the extra message sendMessage posts to the content script
DirectSnapshot(st, gs) ==
    [from |-> "datastore", to |-> "content-script",
     msg |-> [type |-> "snapshot",
              graphqlCustomResponses |-> graphqlCustomResponses(st),
              settings |-> gs]]

\* (mutant) only the popup callback is registered
CallbackPosts_PopupOnly(pp, t, target, dumps, gs) ==
    IF pp[t][target] = NoPort \/ target # "popup" THEN <<>>
    ELSE [i \in 1..Len(dumps) |-> SnapshotOf(dumps[i], gs, target)]

\* what the callbacks post for a list of dumps to the port registered for (t, target)
CallbackPosts(pp, t, target, dumps, gs) ==
    IF pp[t][target] = NoPort THEN <<>>
    ELSE [i \in 1..Len(dumps) |-> SnapshotOf(dumps[i], gs, target)]

RECURSIVE BlobsFrom(_, _)
BlobsFrom(ss, t) ==
    IF t \notin Tabs THEN <<>>
    ELSE (IF ss[t] = NoStore THEN <<>> ELSE <<toJSON(ss[t])>>) \o BlobsFrom(ss, t + 1)

\* (mutant) only the first Store is written
saveStoresToStorage_First(ss) == Take(BlobsFrom(ss, 1), 1)

\* saveStoresToStorage: one blob per Store (blobs are keyed by their tabId; the
\* Map's iteration order over tabs is taken as ascending)
saveStoresToStorage(ss) == BlobsFrom(ss, 1)

\* (mutant) every mock is counted, activated or not
activeMocks_All(st) == Len(st.graphqlCustomResponsesMap)

activeMocks(st) ==
    Cardinality({i \in 1..Len(st.graphqlCustomResponsesMap) :
                    st.graphqlCustomResponsesMap[i].val.activated})

\* updateBadge: the text set for a tab that has a Store
BadgeText(st) ==
    IF activeMocks(st) > 0 /\ st.settings.globalMockEnabled THEN ToString(activeMocks(st))
    ELSE IF activeMocks(st) > 0 THEN "paused"
    ELSE ""

updateBadge(bg, ss, tabId) ==
    IF ss[tabId] # NoStore THEN [bg EXCEPT ![tabId] = BadgeText(ss[tabId])] ELSE bg

\* sendMessage(message, tabId), the branch message.to === 'datastore'
toDatastore(message, tabId) ==
    LET msg == message.msg
        ss0 == getStore(stores, globalSettings, tabId)
        isSettings == msg.type = "settings-update" /\ Has(msg, "settings")
        gs == IF isSettings THEN msg.settings ELSE globalSettings
        pre == [t \in Tabs |->
                 IF isSettings /\ ss0[t] # NoStore THEN setSettings(ss0[t], gs)
                 ELSE [store |-> ss0[t], dumps |-> <<>>]]
        upd == updateFrom(pre[tabId].store, msg)
        ss1 == [t \in Tabs |-> IF t = tabId THEN upd.store ELSE pre[t].store]
        dumps == [t \in Tabs |-> pre[t].dumps \o (IF t = tabId THEN upd.dumps ELSE <<>>)]
        direct == IF msg.type \in {"graphql-custom-response-update", "settings-update"}
                     /\ ports[tabId]["content-script"] # NoPort
                  THEN <<DirectSnapshot(upd.store, gs)>> ELSE <<>>
    IN  /\ stores' = ss1
        /\ globalSettings' = gs
        /\ localStorage' = IF isSettings THEN Stored(gs) ELSE localStorage
        /\ sessionStorage' = Stored(saveStoresToStorage(ss1))
        /\ sent' = [t \in Tabs |-> [r \in Roles |->
                      CallbackPosts(ports, t, r, dumps[t], gs)
                      \o (IF t = tabId /\ r = "content-script" THEN direct ELSE <<>>)]]
        /\ badge' = IF msg.type = "settings-update"
                    THEN [t \in Tabs |-> updateBadge(badge, ss1, t)[t]]
                    ELSE updateBadge(badge, ss1, tabId)

\* (mutant) the message is posted to every registered port of the tab
toRole_EveryRole(message, tabId) ==
    /\ sent' = [NoPosts EXCEPT ![tabId] =
                  [r \in Roles |-> IF ports[tabId][r] # NoPort
                                   THEN <<message>> ELSE <<>>]]
    /\ UNCHANGED <<stores, globalSettings, localStorage, sessionStorage, badge>>

\* sendMessage(message, tabId), the branch that forwards to a role's port
toRole(message, tabId) ==
    /\ sent' = [NoPosts EXCEPT ![tabId] =
                  [r \in Roles |-> IF r = message.to /\ ports[tabId][r] # NoPort
                                   THEN <<message>> ELSE <<>>]]
    /\ UNCHANGED <<stores, globalSettings, localStorage, sessionStorage, badge>>

\* (mutant) the keep-alive is handled like any other message
sendMessage_NoPing(message, tabId) ==
    IF message.to = "datastore" THEN toDatastore(message, tabId)
    ELSE toRole(message, tabId)

sendMessage(message, tabId) ==
    IF message.msg.type = "ping"
    THEN /\ sent' = NoPosts
         /\ UNCHANGED <<stores, globalSettings, localStorage, sessionStorage, badge>>
    ELSE IF message.to = "datastore" THEN toDatastore(message, tabId)
    ELSE toRole(message, tabId)

\* chrome.runtime.onConnect: a connection named role/tabId is accepted
onConnect(c, tabId, name) ==
    /\ conn[c] = Closed
    /\ \A d \in ConnIds : d < c => conn[d] # Closed
    /\ conn' = [conn EXCEPT ![c] = [tab |-> tabId, role |-> name]]
    /\ ports' = [ports EXCEPT ![tabId][name] = c]
    /\ sent' = NoPosts
    /\ handled' = [op |-> "onConnect", tabId |-> tabId]
    /\ UNCHANGED <<stores, globalSettings, loadPhase, localRead, sessionRead,
                   localStorage, sessionStorage, badge, clock, restarts>>

\* port.onDisconnect of connection c: the listener deletes the entry of c's role
onDisconnect(c) ==
    /\ conn[c] # Closed
    /\ conn' = [conn EXCEPT ![c] = Closed]
    /\ ports' = [ports EXCEPT ![conn[c].tab][conn[c].role] = NoPort]
    /\ sent' = NoPosts
    /\ handled' = [op |-> "onDisconnect", tabId |-> conn[c].tab]
    /\ UNCHANGED <<stores, globalSettings, loadPhase, localRead, sessionRead,
                   localStorage, sessionStorage, badge, clock, restarts>>

\* port.onMessage of connection c
onMessage(c, message) ==
    /\ conn[c] # Closed
    /\ sendMessage(message, conn[c].tab)
    /\ handled' = [op |-> "onMessage", tabId |-> conn[c].tab, message |-> message]
    /\ clock' = clock + 1
    /\ UNCHANGED <<ports, conn, loadPhase, localRead, sessionRead, restarts>>

\* chrome.tabs.onUpdated
onUpdated(tabId) ==
    /\ badge' = updateBadge(badge, stores, tabId)
    /\ sent' = NoPosts
    /\ handled' = [op |-> "onUpdated", tabId |-> tabId]
    /\ UNCHANGED <<stores, globalSettings, ports, conn, loadPhase, localRead,
                   sessionRead, localStorage, sessionStorage, clock, restarts>>

\* chrome.tabs.onRemoved
onRemoved(tabId) ==
    /\ stores' = [stores EXCEPT ![tabId] = NoStore]
    /\ ports' = [ports EXCEPT ![tabId] = NoPorts]
    /\ sessionStorage' = Stored(saveStoresToStorage(stores'))
    /\ sent' = NoPosts
    /\ handled' = [op |-> "onRemoved", tabId |-> tabId]
    /\ UNCHANGED <<globalSettings, conn, loadPhase, localRead, sessionRead,
                   localStorage, badge, clock, restarts>>

\* The host stops the idle service worker and starts it again: the module's
\* variables are initialised anew, every port is gone, the storage areas stay,
\* and loadStoresFromStorage() issues its first storage read.
RestartWithin(limit) ==
    /\ restarts < limit
    /\ restarts' = restarts + 1
    /\ stores' = [t \in Tabs |-> NoStore]
    /\ globalSettings' = DEFAULT_SETTINGS
    /\ ports' = [t \in Tabs |-> NoPorts]
    /\ conn' = [c \in ConnIds |-> Closed]
    /\ loadPhase' = "settings"
    /\ localRead' = localStorage
    /\ sessionRead' = Undefined
    /\ sent' = NoPosts
    /\ handled' = [op |-> "start"]
    /\ UNCHANGED <<localStorage, sessionStorage, badge, clock>>

Restart == RestartWithin(MaxRestarts)

\* loadSettingsFromStorage resumes with the result of storage.local.get, and
\* loadStoresFromStorage issues storage.session.get
loadSettingsFromStorage ==
    /\ loadPhase = "settings"
    /\ globalSettings' = IF localRead # Undefined THEN ValueOf(localRead) ELSE globalSettings
    /\ sessionRead' = sessionStorage
    /\ loadPhase' = "session"
    /\ sent' = NoPosts
    /\ handled' = [op |-> "loadSettings"]
    /\ UNCHANGED <<stores, ports, conn, localRead, localStorage, sessionStorage,
                   badge, clock, restarts>>

\* stateInfoArray.forEach: each persisted blob is set up in the tab's Store
RECURSIVE convertEach(_, _, _)
convertEach(ss, blobs, gs) ==
    IF blobs = <<>> THEN [stores |-> ss, dumps |-> [t \in Tabs |-> <<>>]]
    ELSE LET state == [Head(blobs) EXCEPT !.settings = gs]
             ss0 == getStore(ss, gs, state.tabId)
             one == setupFromState(ss0[state.tabId], state)
             rest == convertEach([ss0 EXCEPT ![one.store.tabId] = one.store],
                                 Tail(blobs), gs)
         IN  [stores |-> rest.stores,
              dumps |-> [rest.dumps EXCEPT ![state.tabId] = one.dumps \o @]]

\* loadStoresFromStorage resumes with the result of storage.session.get
loadStoresFromStorage ==
    /\ loadPhase = "session"
    /\ loadPhase' = "done"
    /\ LET done == IF sessionRead = Undefined
                   THEN [stores |-> stores, dumps |-> [t \in Tabs |-> <<>>]]
                   ELSE convertEach(stores, ValueOf(sessionRead), globalSettings)
       IN  /\ stores' = done.stores
           /\ sent' = [t \in Tabs |-> [r \in Roles |->
                         CallbackPosts(ports, t, r, done.dumps[t], globalSettings)]]
    /\ handled' = [op |-> "loadStores"]
    /\ UNCHANGED <<globalSettings, ports, conn, localRead, sessionRead, localStorage,
                   sessionStorage, badge, clock, restarts>>

----------------------------------------------------------------------------
\* The messages a connection can deliver
CustomResponseValues ==
    [operationName : OperationNames, customResponse : {BodyA}, activated : BOOLEAN]
    \cup [operationName : OperationNames, customResponse : {JsonNull},
          activated : {FALSE}]

ListsOf(S, n) == UNION {[1..k -> S] : k \in 0..n}

Datastore(from, msg) == [from |-> from, to |-> "datastore", msg |-> msg]

Captured(op, body, stamp) ==
    [type |-> "graphql-response-captured",
     graphqlResponses |->
         <<[operationName |-> op, response |-> body, timestamp |-> stamp]>>]

PlainMessages ==
    {[type |-> "snapshot-fetch"], [type |-> "clear-all"], [type |-> "ping"]}
    \cup {[type |-> "settings-update", settings |-> s] : s \in SettingsValues}
    \cup {[type |-> "graphql-custom-response-update", graphqlCustomResponses |-> l] :
            l \in ListsOf(CustomResponseValues, 1)}

MockSet(l) == [type |-> "graphql-custom-response-update", graphqlCustomResponses |-> l]

CoordinatorInit ==
    /\ stores = [t \in Tabs |-> NoStore]
    /\ globalSettings = DEFAULT_SETTINGS
    /\ ports = [t \in Tabs |-> NoPorts]
    /\ conn = [c \in ConnIds |-> Closed]
    /\ loadPhase = "settings"
    /\ localRead = Undefined
    /\ sessionRead = Undefined
    /\ localStorage = Undefined
    /\ sessionStorage = Undefined
    /\ badge = [t \in Tabs |-> ""]
    /\ sent = NoPosts
    /\ handled = [op |-> "start"]
    /\ clock = 0
    /\ restarts = 0

----------------------------------------------------------------------------
\* JSON text.  A text is told by what JSON.parse makes of it: the value it
\* stands for, or SyntaxError when JSON.parse throws.
Stringify(v) == [text |-> v]
Parse(t) == t.text
NotJson == [text |-> SyntaxError]

----------------------------------------------------------------------------
\* UI Surface: the popup App of tab 1 and its GraphQLList (export, import)
UITab == 1

NoImport == [phase |-> "idle", graphqlCustomResponses |-> <<>>, port |-> NoPort]

\* a Port object that chrome.runtime.connect returned although no receiving
\* end exists
NoReceiver == 9

\* `retries` counts the reconnect attempts made since a connection was last
\* established; lostAt and connectedAt are the clock readings when the
\* connection was last lost and last established
UIInit ==
    /\ ui = [graphqlResponses |-> <<>>, graphqlCustomResponses |-> <<>>,
             settings |-> DEFAULT_SETTINGS, port |-> NoPort, import |-> NoImport,
             mounted |-> FALSE, channel |-> "none", reconnectAttempts |-> 0,
             reconnectTimeout |-> FALSE, retries |-> 0, lostAt |-> 0,
             connectedAt |-> 0]
    /\ file = Undefined
    /\ toCoordinator = <<>>
    /\ toUI = <<>>

\* the mock tables a UI Surface can hold: one definition per name, none null
ExportableTables ==
    {l \in ListsOf([operationName : OperationNames, customResponse : {BodyA, BodyB},
                    activated : BOOLEAN], MaxList) :
        \A i, j \in 1..Len(l) : l[i].operationName = l[j].operationName => i = j}

\* handleExport in a UI Surface that holds the table l and the settings s
handleExport(l, s) ==
    /\ file = Undefined
    /\ file' = Stored(Stringify([version |-> "1.0.0", customResponses |-> l,
                                 settings |-> s]))
    /\ UNCHANGED <<ui, toCoordinator, toUI>>

\* connectPort is called when the App is mounted and when the reconnect timer
\* fires
Connecting == ui.port = NoPort /\ (~ui.mounted \/ ui.reconnectTimeout)

\* (mutant) the popup connects and does not ask for the state
connectPort_NoRequest(c) ==
    /\ Connecting
    /\ onConnect(c, UITab, "popup")
    /\ ui' = [ui EXCEPT !.port = c, !.mounted = TRUE, !.channel = "up",
                        !.reconnectTimeout = FALSE, !.reconnectAttempts = 0,
                        !.retries = 0, !.connectedAt = clock]
    /\ UNCHANGED <<file, toCoordinator, toUI>>

\* connectPort: the popup connects as popup/<tabId> and asks for the state
connectPort(c) ==
    /\ Connecting
    /\ onConnect(c, UITab, "popup")
    /\ ui' = [ui EXCEPT !.port = c, !.mounted = TRUE, !.channel = "up",
                        !.reconnectTimeout = FALSE, !.reconnectAttempts = 0,
                        !.retries = 0, !.connectedAt = clock]
    /\ toCoordinator' = Append(toCoordinator,
                               Datastore("popup", [type |-> "snapshot-fetch"]))
    /\ UNCHANGED <<file, toUI>>

\* connectPort when chrome.runtime.connect returns a Port whose receiving end
\* does not exist: the request for the state is lost, the Port will disconnect
connectPortNoReceiver ==
    /\ Connecting
    /\ ui.retries < MaxRetries
    /\ ui' = [ui EXCEPT !.port = NoReceiver, !.mounted = TRUE, !.channel = "down",
                        !.reconnectTimeout = FALSE, !.reconnectAttempts = 0,
                        !.retries = IF ui.reconnectTimeout THEN @ + 1 ELSE @]
    /\ UNCHANGED <<file, toCoordinator, toUI>>

\* connectPort when chrome.runtime.connect throws: it returns null
connectPortThrows ==
    /\ Connecting
    /\ ui.retries < MaxRetries
    /\ ui' = [ui EXCEPT !.mounted = TRUE, !.reconnectTimeout = FALSE,
                        !.retries = IF ui.reconnectTimeout THEN @ + 1 ELSE @]
    /\ UNCHANGED <<file, toCoordinator, toUI>>

\* handleDisconnect: the Port's disconnect event in the popup
handleDisconnect ==
    /\ ui.channel = "down"
    /\ ui' = [ui EXCEPT
                 !.port = NoPort, !.channel = "closed",
                 !.reconnectAttempts = IF @ < MAX_RECONNECT_ATTEMPTS THEN @ + 1 ELSE @,
                 !.reconnectTimeout = ui.reconnectAttempts < MAX_RECONNECT_ATTEMPTS]
    /\ UNCHANGED <<file, toCoordinator, toUI>>

\* handleMessage: a Snapshot replaces the App's copy of the state
handleMessage ==
    /\ toUI # <<>>
    /\ toUI' = Tail(toUI)
    /\ ui' = IF Head(toUI).msg.type = "snapshot"
             THEN [ui EXCEPT !.graphqlResponses = Head(toUI).msg.graphqlResponses,
                             !.graphqlCustomResponses =
                                 Head(toUI).msg.graphqlCustomResponses,
                             !.settings = Head(toUI).msg.settings]
             ELSE ui
    /\ UNCHANGED <<file, toCoordinator>>

\* updateCustomResponse: the list sent for one definition, built from the
\* graphqlCustomResponses the callback closed over
updatedResponses(closed, customResponse) ==
    IF customResponse.customResponse = JsonNull
    THEN SelectSeq(closed, LAMBDA cr : cr.operationName # customResponse.operationName)
    ELSE IF \E i \in 1..Len(closed) : closed[i].operationName = customResponse.operationName
    THEN [i \in 1..Len(closed) |->
             IF i = (CHOOSE k \in 1..Len(closed) :
                        /\ closed[k].operationName = customResponse.operationName
                        /\ \A j \in 1..(k - 1) :
                              closed[j].operationName # customResponse.operationName)
             THEN customResponse ELSE closed[i]]
    ELSE Append(closed, customResponse)

updateCustomResponse(closure, customResponse) ==
    IF closure.port = NoPort THEN <<>>
    ELSE <<Datastore("popup",
                     MockSet(updatedResponses(closure.graphqlCustomResponses,
                                              customResponse)))>>

updateSettings(port, newSettings) ==
    IF port = NoPort THEN <<>>
    ELSE <<Datastore("popup", [type |-> "settings-update", settings |-> newSettings])>>

\* handleImport: the file dialog opens; the onchange handler closes over the
\* updateCustomResponse of this render
handleImport ==
    /\ file # Undefined
    /\ ui.import.phase = "idle"
    /\ ui' = [ui EXCEPT !.import = [phase |-> "reading",
                                    graphqlCustomResponses |-> ui.graphqlCustomResponses,
                                    port |-> ui.port]]
    /\ UNCHANGED <<file, toCoordinator, toUI>>

RECURSIVE importEach(_, _)
importEach(closure, customResponses) ==
    IF customResponses = <<>> THEN <<>>
    ELSE updateCustomResponse(closure, Head(customResponses))
         \o importEach(closure, Tail(customResponses))

\* input.onchange, after file.text(): each definition goes through
\* updateCustomResponse, then the settings through updateSettings
onchange ==
    /\ ui.import.phase = "reading"
    /\ LET data == Parse(ValueOf(file))
       IN  /\ toCoordinator' = toCoordinator
                                 \o importEach(ui.import, data.customResponses)
                                 \o updateSettings(ui.port, data.settings)
           /\ ui' = [ui EXCEPT !.import.phase = "done",
                               !.settings = IF ui.port = NoPort THEN @
                                            ELSE data.settings]
    /\ UNCHANGED <<file, toUI>>

\* the definitions a user saves or toggles in the popup
EditDefinitions ==
    {[operationName |-> "GetUser", customResponse |-> BodyA, activated |-> TRUE,
      delay |-> 0],
     [operationName |-> "unknown", customResponse |-> BodyB, activated |-> TRUE,
      delay |-> 0]}

\* the user saves or toggles a definition in the popup: updateCustomResponse of
\* the current render, which closed over the App's graphqlCustomResponses
saveMock ==
    \E customResponse \in EditDefinitions :
        /\ ui.port # NoPort
        /\ clock + Len(toCoordinator) < MaxEdits
        /\ toCoordinator' = toCoordinator
                              \o updateCustomResponse(ui, customResponse)
        /\ UNCHANGED <<ui, file, toUI>>

\* the definitions the pop-out editor saves (it has a field for the delay)
EditorSaves ==
    {[operationName |-> "GetUser", customResponse |-> BodyB, activated |-> TRUE,
      delay |-> 1],
     [operationName |-> "unknown", customResponse |-> BodyA, activated |-> TRUE,
      delay |-> 1]}

\* the list the BroadcastChannel handler sends for a save of the pop-out
\* editor: the App's graphqlCustomResponses with the definition put in place
\* of the one of its name, or pushed
channelList(closed, data) ==
    IF \E i \in 1..Len(closed) : closed[i].operationName = data.operationName
    THEN [i \in 1..Len(closed) |->
             IF i = (CHOOSE k \in 1..Len(closed) :
                        /\ closed[k].operationName = data.operationName
                        /\ \A j \in 1..(k - 1) :
                              closed[j].operationName # data.operationName)
             THEN data ELSE closed[i]]
    ELSE Append(closed, data)

\* channel.onmessage: a save of the pop-out editor arrives on the
\* BroadcastChannel 'graphql-editor'
channelOnMessage ==
    \E data \in EditorSaves :
        /\ clock + Len(toCoordinator) < MaxEdits
        /\ toCoordinator' =
              IF ui.port = NoPort THEN toCoordinator
              ELSE Append(toCoordinator,
                          Datastore("popup",
                                    MockSet(channelList(ui.graphqlCustomResponses,
                                                        data))))
        /\ UNCHANGED <<ui, file, toUI>>

\* the Coordinator's port.onMessage takes the popup's next message; what it
\* posts to the popup's port is on its way to the popup
popupMessage ==
    /\ toCoordinator # <<>> /\ ui.channel = "up"
    /\ onMessage(ui.port, Head(toCoordinator))
    /\ toCoordinator' = Tail(toCoordinator)
    /\ toUI' = toUI \o sent'[UITab]["popup"]
    /\ UNCHANGED <<ui, file>>

----------------------------------------------------------------------------
\* Bridge: the content script of tab 1.  `port` names the Port object the
\* script holds (the n-th it made), or NoPort for undefined.  The channel of
\* the newest Port object is up, down (the other end is gone and the
\* disconnect event is still to be dispatched) or closed.
\* inbox: the messages the Coordinator has posted on the script's Port that
\* its onMessage listener has still to take.  emitted: the window messages the
\* script has posted into the page that are still to be dispatched to the
\* page's listeners.  threw: a listener of the script ended with an exception.
BridgeInit == [loaded |-> FALSE, port |-> NoPort, made |-> 0, conn |-> NoPort,
               channel |-> "none", changed |-> FALSE, posted |-> <<>>,
               inbox |-> <<>>, emitted |-> <<>>, threw |-> FALSE]

SnapshotRequest == Datastore("content-script", [type |-> "snapshot-fetch"])

\* port.onDisconnect.addListener is called once, on the Port object the script
\* made when it was loaded
disconnectListeners(object) == IF object = 1 THEN 1 ELSE 0

\* the content script is loaded into the page: it connects as content-script
contentScript(c) ==
    /\ ~bridge.loaded
    /\ onConnect(c, 1, "content-script")
    /\ bridge' = [bridge EXCEPT !.loaded = TRUE, !.port = 1, !.made = 1, !.conn = c,
                                !.channel = "up"]

\* the disconnect event of the newest Port object is dispatched in the page
portOnDisconnect ==
    /\ bridge.channel = "down"
    /\ bridge' = [bridge EXCEPT !.channel = "closed",
                                !.port = IF disconnectListeners(bridge.made) > 0
                                         THEN NoPort ELSE @]

\* chrome.storage.onChanged with areaName 'session'
onChanged(c) ==
    /\ bridge.loaded /\ bridge.changed
    /\ IF bridge.port = NoPort
       THEN /\ onConnect(c, 1, "content-script")
            /\ bridge' = [bridge EXCEPT !.changed = FALSE, !.port = bridge.made + 1,
                                        !.made = @ + 1, !.conn = c, !.channel = "up",
                                        !.posted = <<SnapshotRequest>>]
       ELSE /\ bridge' = [bridge EXCEPT !.changed = FALSE,
                                        !.posted = IF bridge.channel = "up"
                                                   THEN Append(@, SnapshotRequest)
                                                   ELSE @]
            /\ UNCHANGED coordVars

\* (mutant) every write of the session area is reported, the same value too
Changed_EveryWrite(b) == [b EXCEPT !.changed = @ \/ b.loaded]

\* chrome.storage reports a change of the session area to the content script
Changed(b) == [b EXCEPT !.changed = @ \/ (b.loaded /\ sessionStorage' # sessionStorage)]

\* what the Coordinator posts on the content script's Port arrives at the script
Inbound(b) ==
    [b EXCEPT !.inbox = IF b.channel = "up" THEN @ \o sent'[1]["content-script"] ELSE @]

\* the window listener of the content script, for a page message tagged
\* graphql-mocker-web-page: event.data.data is posted on the Port when the
\* variable holds one.  On a Port whose other end is gone the message is lost;
\* on a Port that has been disconnected postMessage throws.
webPageMessage(data) ==
    /\ bridge.loaded
    /\ bridge' = IF bridge.port = NoPort THEN bridge
                 ELSE IF bridge.channel = "up"
                 THEN [bridge EXCEPT !.posted = Append(@, data)]
                 ELSE IF bridge.channel = "closed"
                 THEN [bridge EXCEPT !.threw = TRUE]
                 ELSE bridge

\* (mutant) the message is posted into the page under the Hook's own tag
handleMessageFromDevtools_PageTag(b, message) ==
    [b EXCEPT !.emitted =
        Append(@, [source |-> "graphql-mocker-web-page",
                   message |-> message, type |-> "pass-through-to-app"])]

\* handleMessageFromDevtools: a message of the port is posted into the page
\* under the content script's tag
handleMessageFromDevtools(b, message) ==
    [b EXCEPT !.emitted =
        Append(@, [source |-> "graphql-mocker-content-script",
                   message |-> message, type |-> "pass-through-to-app"])]

\* port.onMessage of the content script takes the next message of the Port
portOnMessage ==
    /\ bridge.inbox # <<>>
    /\ bridge' = handleMessageFromDevtools([bridge EXCEPT !.inbox = Tail(@)],
                                           Head(bridge.inbox))

\* the Coordinator's port.onMessage takes the next message of the content script
bridgeMessage ==
    /\ bridge.posted # <<>> /\ bridge.channel = "up"
    /\ clock < MaxTraffic
    /\ onMessage(bridge.conn, Head(bridge.posted))
    /\ bridge' = Changed([bridge EXCEPT !.posted = Tail(@)])

----------------------------------------------------------------------------
\* Interception Hook: the patched window.fetch and XMLHttpRequest
XhrIds == {1}
FetchIds == {1}
Urls == {"/graphql", "/api/items"}
Methods == {"POST", "PUT"}
ResponseTypes == {"", "json"}

\* url.includes('/graphql')
includes(url) == url \in {"/graphql"}

\* request bodies: no body, JSON text of a GraphQL request (with and without
\* operationName), JSON text of something else, text that is not JSON
RequestBodies ==
    {Undefined,
     Stored(Stringify([query |-> "query", operationName |-> "GetUser"])),
     Stored(Stringify([query |-> "query"])),
     Stored(Stringify([id |-> 1])),
     Stored(NotJson)}

\* response bodies of the network: JSON text, and text that is not JSON
ResponseTexts == {Stringify(BodyB), NotJson}

NoResponse == [text |-> [json |-> "undefined"]]

\* customGraphQLResponses.get(name) of a name the table lacks
NoEntry == [response |-> JsonNull, activated |-> FALSE, delay |-> 0]

\* a capture event posted to the content script
Capture(operationName, response) ==
    [operationName |-> operationName, response |-> response]

\* the body parsed as the wrappers do: query || operationName, else not GraphQL
parsedBody(body) ==
    IF body = Undefined THEN SyntaxError ELSE Parse(ValueOf(body))

hasGraphQL(body) ==
    Has(parsedBody(body), "query") \/ Has(parsedBody(body), "operationName")

operationNameOf(body) ==
    IF Has(parsedBody(body), "operationName") THEN parsedBody(body).operationName
    ELSE "unknown"

\* customResponse?.activated && mockerSettings.globalMockEnabled
serves(customResponse, settings) ==
    customResponse.activated /\ settings.globalMockEnabled

\* what is known of the call the page made last: how it was made, the mock the
\* table served for its operation when it was made, what the Hook and the
\* network did for it, and what the call site got
NoCall ==
    [style |-> "none", url |-> "", method |-> "", body |-> Undefined, sent |-> FALSE,
     mock |-> Undefined, isGraphQL |-> FALSE, steps |-> 0, originals |-> 0,
     captures |-> <<>>, events |-> <<>>, observed |-> Undefined, settled |-> FALSE]

StartCall(style, url, method, body) ==
    LET customResponse ==
          MapGet(customGraphQLResponses, operationNameOf(body), NoEntry)
    IN  [NoCall EXCEPT !.style = style, !.url = url, !.method = method, !.body = body,
                       !.sent = TRUE, !.steps = page.wrappers,
                       !.mock = IF serves(customResponse, mockerSettings)
                                THEN Stored(customResponse.response) ELSE Undefined]

Idle == [pc |-> "idle", isGraphQL |-> FALSE, operationName |-> "unknown",
         customResponse |-> NoEntry]

HookInit ==
    /\ customGraphQLResponses = <<>>
    /\ mockerSettings = [globalMockEnabled |-> TRUE, darkMode |-> TRUE]
    /\ xhrs = [x \in XhrIds |->
                 [_url |-> "", _method |-> "", _isMocked |-> FALSE,
                  _graphqlData |-> Undefined, _graphqlSent |-> FALSE,
                  loadListeners |-> 0, responseType |-> "", getters |-> Undefined,
                  readyState |-> 0, timer |-> Undefined, handlers |-> {}]]
    /\ fetches = [f \in FetchIds |-> Idle]
    /\ calls = 0
    /\ call = NoCall

\* the page makes one call at a time: the next one when the last has its outcome
Free == call.style = "none" \/ call.settled

\* window after appHook.js has run once: installHook() has defined the global
\* and added the message listener, and fetch, open and send are wrapped once
\* (loads counts the reloads of the document)
PageInit ==
    /\ page = [__GRAPHQL_MOCKER__ |-> 1, messageListeners |-> 1, wrappers |-> 1,
               loads |-> 0]
    /\ bridge = BridgeInit

\* the tab's page is reloaded: the old document goes with its content script
\* (the Coordinator's onDisconnect listener runs for its Port) and its Hook;
\* in the new document appHook.js has run once, with an empty table and the
\* default settings, and the content script is still to run
reload ==
    /\ page.loads < MaxReloads
    /\ bridge.loaded /\ Free
    /\ IF bridge.channel = "up" THEN onDisconnect(bridge.conn) ELSE UNCHANGED coordVars
    /\ bridge' = BridgeInit
    /\ page' = [page EXCEPT !.wrappers = 1, !.loads = @ + 1]
    /\ customGraphQLResponses' = <<>>
    /\ mockerSettings' = [globalMockEnabled |-> TRUE, darkMode |-> TRUE]
    /\ xhrs' = [x \in XhrIds |->
                  [_url |-> "", _method |-> "", _isMocked |-> FALSE,
                   _graphqlData |-> Undefined, _graphqlSent |-> FALSE,
                   loadListeners |-> 0, responseType |-> "", getters |-> Undefined,
                   readyState |-> 0, timer |-> Undefined, handlers |-> {}]]
    /\ fetches' = [f \in FetchIds |-> Idle]
    /\ calls' = 0
    /\ call' = NoCall

installHook(w) ==
    IF w.__GRAPHQL_MOCKER__ > 0 THEN w
    ELSE [w EXCEPT !.__GRAPHQL_MOCKER__ = @ + 1, !.messageListeners = @ + 1]

\* appHook.js runs again in the page: installHook(), then the statements that
\* wrap window.fetch, XMLHttpRequest.prototype.open and .send as they find them.
\* The run has a customGraphQLResponses and a mockerSettings of its own, which
\* no listener fills: installHook() returned before adding one.
appHook ==
    /\ page.wrappers < MaxRuns
    /\ Free
    /\ page' = [installHook(page) EXCEPT !.wrappers = @ + 1]
    /\ UNCHANGED <<hookVars, bridge>>

\* what the wrappers of the later runs post for a call that the wrapper below
\* answered with the JSON value: each found its own table empty, awaited the
\* wrapper below and posts a capture of what came back
outerCaptures(fr, value) ==
    IF fr.isGraphQL /\ value # SyntaxError
    THEN [i \in 1..(page.wrappers - 1) |-> Capture(fr.operationName, value)]
    ELSE <<>>

\* the Snapshots the Bridge hands to the page
HookTables ==
    {<<>>,
     <<[operationName |-> "GetUser", customResponse |-> BodyA, activated |-> TRUE,
        delay |-> 0]>>,
     <<[operationName |-> "GetUser", customResponse |-> BodyB, activated |-> TRUE,
        delay |-> 500]>>,
     <<[operationName |-> "unknown", customResponse |-> BodyA, activated |-> TRUE,
        delay |-> 0],
       [operationName |-> "GetUser", customResponse |-> BodyA, activated |-> FALSE,
        delay |-> 0]>>}

HookSettings == {[globalMockEnabled |-> e, darkMode |-> TRUE] : e \in BOOLEAN}

\* (a delay that is not set stays undefined in the entry; it is falsy wherever
\* the wrappers read it, like 0, and is kept as 0 here)
RECURSIVE setItems(_, _)
setItems(table, items) ==
    IF items = <<>> THEN table
    ELSE setItems(IF Head(items).customResponse # JsonNull
                  THEN MapSet(table, Head(items).operationName,
                              [response |-> Head(items).customResponse,
                               activated |-> Head(items).activated,
                               delay |-> IF Has(Head(items), "delay")
                                         THEN Head(items).delay ELSE 0])
                  ELSE table,
                  Tail(items))

\* (mutant) the table is not cleared before the list is applied
listenFromContentScript_Merge(msg) ==
    /\ customGraphQLResponses' =
          IF Has(msg, "graphqlCustomResponses")
          THEN setItems(customGraphQLResponses, msg.graphqlCustomResponses)
          ELSE customGraphQLResponses
    /\ mockerSettings' = IF Has(msg, "settings") THEN msg.settings ELSE mockerSettings
    /\ UNCHANGED <<xhrs, fetches, calls, call>>

\* listenFromContentScript, for the msg of a message tagged by the content
\* script: the list it carries replaces the table, the settings the mirror
listenFromContentScript(msg) ==
    /\ customGraphQLResponses' =
          IF Has(msg, "graphqlCustomResponses")
          THEN setItems(<<>>, msg.graphqlCustomResponses)
          ELSE customGraphQLResponses
    /\ mockerSettings' = IF Has(msg, "settings") THEN msg.settings ELSE mockerSettings
    /\ UNCHANGED <<xhrs, fetches, calls, call>>

\* the next window message is dispatched to the listener installHook added
windowMessage ==
    /\ bridge.emitted # <<>>
    /\ bridge' = [bridge EXCEPT !.emitted = Tail(@)]
    /\ IF Head(bridge.emitted).source = "graphql-mocker-content-script"
          /\ page.messageListeners > 0
       THEN listenFromContentScript(Head(bridge.emitted).message.msg)
       ELSE UNCHANGED hookVars

\* ---- window.fetch ----
\* the mocked branch after its delay: the synthesized Response and the capture
respondMocked(fr, c) ==
    [c EXCEPT !.captures = Append(@, Capture(fr.operationName,
                                             fr.customResponse.response))
                           \o outerCaptures(fr, fr.customResponse.response),
              !.observed = Stored([status |-> 200,
                                   body |-> Stringify(fr.customResponse.response)]),
              !.settled = TRUE]

fetch(f, url, method, body) ==
    /\ calls < MaxCalls
    /\ Free
    /\ fetches[f].pc = "idle"
    /\ calls' = calls + 1
    /\ LET isGraphQL == includes(url) /\ hasGraphQL(body)
           operationName == IF isGraphQL THEN operationNameOf(body) ELSE "unknown"
           customResponse == MapGet(customGraphQLResponses, operationName, NoEntry)
           started == [StartCall("fetch", url, method, body) EXCEPT
                          !.isGraphQL = isGraphQL]
           frame == [pc |-> "netWait", isGraphQL |-> isGraphQL,
                     operationName |-> operationName, customResponse |-> customResponse]
       IN  IF ~isGraphQL
           THEN /\ fetches' = [fetches EXCEPT ![f] = frame]
                /\ call' = [started EXCEPT !.originals = 1]
           ELSE IF serves(customResponse, mockerSettings)
           THEN IF customResponse.delay > 0
                THEN /\ fetches' = [fetches EXCEPT ![f] = [frame EXCEPT !.pc = "mockWait"]]
                     /\ call' = started
                ELSE /\ fetches' = fetches
                     /\ call' = respondMocked(frame, started)
           ELSE /\ fetches' = [fetches EXCEPT ![f] = frame]
                /\ call' = [started EXCEPT !.originals = 1]
    /\ UNCHANGED <<customGraphQLResponses, mockerSettings, xhrs>>

\* await delay(customResponse.delay) is over
fetchDelayed(f) ==
    /\ fetches[f].pc = "mockWait"
    /\ fetches' = [fetches EXCEPT ![f] = Idle]
    /\ call' = respondMocked(fetches[f], call)
    /\ UNCHANGED <<customGraphQLResponses, mockerSettings, xhrs, calls>>

\* await originalFetch(...) resolves with a response of the given body
fetchResolved(f, text) ==
    /\ fetches[f].pc = "netWait"
    /\ fetches' = [fetches EXCEPT ![f] = Idle]
    /\ call' = [call EXCEPT
                  !.captures = (IF fetches[f].isGraphQL /\ Parse(text) # SyntaxError
                                THEN Append(@, Capture(fetches[f].operationName,
                                                       Parse(text)))
                                ELSE @)
                               \o outerCaptures(fetches[f], Parse(text)),
                  !.observed = Stored([status |-> 200, body |-> text]),
                  !.settled = TRUE]
    /\ UNCHANGED <<customGraphQLResponses, mockerSettings, xhrs, calls>>

\* await originalFetch(...) rejects
fetchRejected(f) ==
    /\ fetches[f].pc = "netWait"
    /\ fetches' = [fetches EXCEPT ![f] = Idle]
    /\ call' = [call EXCEPT !.observed = Stored([status |-> 0, body |-> NoResponse]),
                            !.settled = TRUE]
    /\ UNCHANGED <<customGraphQLResponses, mockerSettings, xhrs, calls>>

\* ---- XMLHttpRequest ----
\* what the call site reads from the object: the getters send() defined, when
\* there are any, before the object's own properties
reads(xhr, status, text) ==
    IF xhr.getters # Undefined
    THEN [status |-> ValueOf(xhr.getters).status, body |-> ValueOf(xhr.getters).response]
    ELSE [status |-> status,
          body |-> IF xhr.responseType = "json"
                   THEN (IF Parse(text) = SyntaxError THEN JsonNull ELSE Parse(text))
                   ELSE text]

\* what the page can register on an XHR object: the property handlers
\* onreadystatechange, onload and onloadend, and listeners added with
\* addEventListener for load and for loadend
PageHandlers == {"onreadystatechange", "onload", "onloadend", "load", "loadend"}

\* the page sets a property handler or adds a listener between open and send
register(x, h) ==
    /\ xhrs[x].readyState = 1
    /\ call.style = "xhr" /\ ~call.sent
    /\ h \notin xhrs[x].handlers
    /\ xhrs' = [xhrs EXCEPT ![x].handlers = @ \cup {h}]
    /\ UNCHANGED <<customGraphQLResponses, mockerSettings, fetches, calls, call>>

\* the page's handlers that the dispatch of an event of some type invokes, or
\* that a direct call of a property handler invokes: those of `order` that the
\* page has registered
Invoked(xhr, order) == SelectSeq(order, LAMBDA h : h \in xhr.handlers)

\* the browser completes a real request: readystatechange for DONE, then load,
\* then loadend, each dispatched once to the handlers of its type
realEvents(xhr) ==
    Invoked(xhr, <<"onreadystatechange">>) \o Invoked(xhr, <<"onload", "load">>)
    \o Invoked(xhr, <<"onloadend", "loadend">>)

\* the timer callback of a mocked send: the capture is posted, then
\* xhr.onreadystatechange is called, then xhr.onload is called and a load event
\* is dispatched (which reaches onload and the load listeners), then
\* xhr.onloadend is called and a loadend event is dispatched
mockEvents(xhr) ==
    <<"capture">> \o Invoked(xhr, <<"onreadystatechange">>)
    \o Invoked(xhr, <<"onload">>) \o Invoked(xhr, <<"onload", "load">>)
    \o Invoked(xhr, <<"onloadend">>) \o Invoked(xhr, <<"onloadend", "loadend">>)

\* the page opens a request on the object: the patched open
open(x, method, url) ==
    /\ calls < MaxCalls
    /\ Free
    /\ xhrs[x].readyState \in {0, 1, 4}
    /\ xhrs[x].timer = Undefined
    /\ calls' = calls + 1
    /\ xhrs' = [xhrs EXCEPT ![x] =
          [@ EXCEPT !._url = url, !._method = method,
                    !.loadListeners = IF includes(url) /\ method = "POST"
                                      THEN @ + page.wrappers ELSE @,
                    !.readyState = 1]]
    /\ call' = [NoCall EXCEPT !.style = "xhr", !.url = url, !.method = method]
    /\ UNCHANGED <<customGraphQLResponses, mockerSettings, fetches>>

\* the page sets xhr.responseType between open and send
setResponseType(x, responseType) ==
    /\ xhrs[x].readyState = 1
    /\ call.style = "xhr" /\ ~call.sent
    /\ xhrs[x].responseType # responseType
    /\ xhrs' = [xhrs EXCEPT ![x].responseType = responseType]
    /\ UNCHANGED <<customGraphQLResponses, mockerSettings, fetches, calls, call>>

\* the patched send
send(x, body) ==
    /\ xhrs[x].readyState = 1
    /\ call.style = "xhr" /\ ~call.sent
    /\ LET xhr == xhrs[x]
           started == StartCall("xhr", xhr._url, xhr._method, body)
           isGraphQL == includes(xhr._url) /\ xhr._method = "POST" /\ hasGraphQL(body)
           operationName == operationNameOf(body)
           customResponse == MapGet(customGraphQLResponses, operationName, NoEntry)
           mockResponseText == Stringify(customResponse.response)
           mockResponse == IF xhr.responseType = "json" THEN customResponse.response
                           ELSE mockResponseText
       IN  IF xhr._isMocked
           THEN /\ xhrs' = xhrs
                /\ call' = [started EXCEPT !.steps = 1,
                                           !.observed = Stored(reads(xhr, 0, NoResponse)),
                                           !.settled = TRUE]
           ELSE IF isGraphQL /\ serves(customResponse, mockerSettings)
           THEN /\ xhrs' = [xhrs EXCEPT ![x] =
                     [xhr EXCEPT
                        !._isMocked = TRUE,
                        !._graphqlData = IF page.wrappers > 1
                                         THEN Stored([operationName |-> operationName])
                                         ELSE @,
                        !.getters = Stored([responseText |-> mockResponseText,
                                            response |-> mockResponse,
                                            status |-> 200, readyState |-> 4]),
                        !.timer = Stored([mockDelay |-> IF customResponse.delay # 0
                                                        THEN customResponse.delay ELSE 10,
                                          operationName |-> operationName,
                                          response |-> customResponse.response])]]
                /\ call' = [started EXCEPT !.isGraphQL = TRUE]
           ELSE /\ xhrs' = [xhrs EXCEPT ![x] =
                     [xhr EXCEPT
                        !._graphqlData = IF isGraphQL
                                         THEN Stored([operationName |-> operationName])
                                         ELSE @,
                        !.readyState = 2]]
                /\ call' = [started EXCEPT !.isGraphQL = isGraphQL, !.originals = 1]
    /\ UNCHANGED <<customGraphQLResponses, mockerSettings, fetches, calls>>

\* the load listener that open() added, run on the object: the object and the
\* captures posted so far
loadListener(run, text) ==
    LET xhr == run.xhr
        responseData ==
            IF xhr.responseType = "json"
            THEN (IF Parse(text) = SyntaxError THEN JsonNull ELSE Parse(text))
            ELSE Parse(text)
    IN  IF xhr._isMocked \/ xhr._graphqlData = Undefined \/ xhr._graphqlSent THEN run
        ELSE [xhr |-> [xhr EXCEPT !._graphqlSent = TRUE],
              captures |->
                  IF responseData # SyntaxError
                  THEN Append(run.captures,
                              Capture(ValueOf(xhr._graphqlData).operationName,
                                      responseData))
                  ELSE run.captures]

\* dispatch of a load event to the n listeners added so far, in order
RECURSIVE dispatchLoad(_, _, _)
dispatchLoad(run, text, n) ==
    IF n = 0 THEN run ELSE dispatchLoad(loadListener(run, text), text, n - 1)

\* the real request completes with a response of the given body
load(x, text) ==
    /\ xhrs[x].readyState = 2
    /\ LET done == dispatchLoad([xhr |-> [xhrs[x] EXCEPT !.readyState = 4],
                                 captures |-> call.captures],
                                text, xhrs[x].loadListeners)
       IN  /\ xhrs' = [xhrs EXCEPT ![x] = done.xhr]
           /\ call' = [call EXCEPT !.captures = done.captures,
                                   !.events = realEvents(xhrs[x]),
                                   !.observed = Stored(reads(done.xhr, 200, text)),
                                   !.settled = TRUE]
    /\ UNCHANGED <<customGraphQLResponses, mockerSettings, fetches, calls>>

\* the real request fails: an error event, no load event
error(x) ==
    /\ xhrs[x].readyState = 2
    /\ xhrs' = [xhrs EXCEPT ![x].readyState = 4]
    /\ call' = [call EXCEPT !.observed = Stored(reads(xhrs[x], 0, NoResponse)),
                            !.settled = TRUE]
    /\ UNCHANGED <<customGraphQLResponses, mockerSettings, fetches, calls>>

\* the timer of a mocked send fires: the capture, then the events
mockTimer(x) ==
    /\ xhrs[x].timer # Undefined
    /\ LET timer == ValueOf(xhrs[x].timer)
           posted == Append(call.captures, Capture(timer.operationName, timer.response))
           done == dispatchLoad([xhr |-> [xhrs[x] EXCEPT !.timer = Undefined],
                                 captures |-> posted],
                                ValueOf(xhrs[x].getters).responseText,
                                xhrs[x].loadListeners)
       IN  /\ xhrs' = [xhrs EXCEPT ![x] = done.xhr]
           /\ call' = [call EXCEPT !.captures = done.captures,
                                   !.events = mockEvents(xhrs[x]),
                                   !.observed = Stored(reads(done.xhr, 0, NoResponse)),
                                   !.settled = TRUE]
    /\ UNCHANGED <<customGraphQLResponses, mockerSettings, fetches, calls>>

----------------------------------------------------------------------------
Init == CoordinatorInit /\ UIInit /\ HookInit /\ PageInit

Startup == loadSettingsFromStorage \/ loadStoresFromStorage

Connect == \E c \in ConnIds, t \in Tabs, r \in Roles : onConnect(c, t, r)

Disconnect == \E c \in ConnIds : onDisconnect(c)

\* Time passes between two handler runs: every delivered message takes a tick of
\* the clock, and a capture is stamped with the tick it was made at.
DeliverPlain(M) ==
    \E c \in ConnIds, msg \in M :
        /\ clock < MaxClock
        /\ onMessage(c, Datastore(conn[c].role, msg))

DeliverCaptured(limit) ==
    \E c \in ConnIds, op \in OperationNames :
        /\ clock < limit
        /\ onMessage(c, Datastore(conn[c].role, Captured(op, BodyA, clock + 1)))

Forward ==
    \E c \in ConnIds, to \in Roles :
        /\ clock < MaxClock
        /\ onMessage(c, [from |-> conn[c].role, to |-> to,
                         msg |-> [type |-> "snapshot-fetch"]])

TabUpdated == \E t \in Tabs : onUpdated(t)

TabRemoved == \E t \in Tabs : onRemoved(t)

\* Capture traffic of one tab: the Bridge of tab 1 connects and relays captures
ConnectBridge == onConnect(1, 1, "content-script")

NextRetention ==
    \/ ConnectBridge /\ UNCHANGED <<uiVars, hookVars, pageVars>>
    \/ DeliverCaptured(MaxHistory) /\ UNCHANGED <<uiVars, hookVars, pageVars>>

SpecRetention == Init /\ [][NextRetention]_vars

\* Mock editing: popups connect and send mock-sets; the worker may restart
ConnectPopup == \E c \in ConnIds : onConnect(c, 1, "popup")

MockSets ==
    {MockSet(l) :
        l \in ListsOf([operationName : OperationNames, customResponse : {JsonNull, BodyA},
                       activated : {TRUE}], MaxList)}

NextMocks ==
    \/ Startup /\ UNCHANGED <<uiVars, hookVars, pageVars>>
    \/ ConnectPopup /\ UNCHANGED <<uiVars, hookVars, pageVars>>
    \/ DeliverPlain(MockSets) /\ UNCHANGED <<uiVars, hookVars, pageVars>>
    \/ Restart /\ UNCHANGED <<uiVars, hookVars, pageVars>>

SpecMocks == Init /\ [][NextMocks]_vars

\* Fan-out: observers come and go while messages of every type are handled
FanoutMessages ==
    {[type |-> "snapshot-fetch"], [type |-> "clear-all"], [type |-> "ping"],
     [type |-> "settings-update", settings |-> DEFAULT_SETTINGS],
     [type |-> "settings-update",
      settings |-> [globalMockEnabled |-> FALSE, darkMode |-> TRUE]],
     MockSet(<<>>),
     MockSet(<<[operationName |-> "GetUser", customResponse |-> BodyA,
                activated |-> TRUE]>>),
     MockSet(<<[operationName |-> "GetUser", customResponse |-> JsonNull,
                activated |-> FALSE]>>)}

ConnectObserver == \E c \in ConnIds, r \in Roles : onConnect(c, 1, r)

NextFanout ==
    \/ Startup /\ UNCHANGED <<uiVars, hookVars, pageVars>>
    \/ ConnectObserver /\ UNCHANGED <<uiVars, hookVars, pageVars>>
    \/ Disconnect /\ UNCHANGED <<uiVars, hookVars, pageVars>>
    \/ DeliverPlain(FanoutMessages) /\ UNCHANGED <<uiVars, hookVars, pageVars>>
    \/ DeliverCaptured(MaxClock) /\ UNCHANGED <<uiVars, hookVars, pageVars>>

SpecFanout == Init /\ [][NextFanout]_vars

\* Export and import: a file is exported by some UI Surface, and the popup of
\* tab 1, connected to a Coordinator that holds nothing, imports it
Export == \E l \in ExportableTables, s \in SettingsValues :
              handleExport(l, s) /\ UNCHANGED <<coordVars, hookVars, pageVars>>

NextImport ==
    \/ Startup /\ UNCHANGED <<uiVars, hookVars, pageVars>>
    \/ Export
    \/ (\E c \in ConnIds : connectPort(c)) /\ UNCHANGED <<hookVars, pageVars>>
    \/ handleMessage /\ UNCHANGED <<coordVars, hookVars, pageVars>>
    \/ handleImport /\ UNCHANGED <<coordVars, hookVars, pageVars>>
    \/ onchange /\ UNCHANGED <<coordVars, hookVars, pageVars>>
    \/ popupMessage /\ UNCHANGED <<hookVars, pageVars>>

SpecImport == Init /\ [][NextImport]_vars

\* The page makes calls through fetch and through one XMLHttpRequest object it
\* uses again, while Snapshots reach the Hook
NextHook ==
    \/ (\E l \in HookTables, s \in HookSettings :
           /\ listenFromContentScript([graphqlCustomResponses |-> l, settings |-> s])
           /\ customGraphQLResponses' # customGraphQLResponses
              \/ mockerSettings' # mockerSettings)
       /\ UNCHANGED <<coordVars, uiVars, pageVars>>
    \/ (\E f \in FetchIds, url \in Urls, method \in Methods, body \in RequestBodies :
           fetch(f, url, method, body))
       /\ UNCHANGED <<coordVars, uiVars, pageVars>>
    \/ (\E f \in FetchIds : fetchDelayed(f)) /\ UNCHANGED <<coordVars, uiVars, pageVars>>
    \/ (\E f \in FetchIds, text \in ResponseTexts : fetchResolved(f, text))
       /\ UNCHANGED <<coordVars, uiVars, pageVars>>
    \/ (\E f \in FetchIds : fetchRejected(f)) /\ UNCHANGED <<coordVars, uiVars, pageVars>>
    \/ (\E x \in XhrIds, method \in Methods, url \in Urls : open(x, method, url))
       /\ UNCHANGED <<coordVars, uiVars, pageVars>>
    \/ (\E x \in XhrIds, responseType \in ResponseTypes : setResponseType(x, responseType))
       /\ UNCHANGED <<coordVars, uiVars, pageVars>>
    \/ (\E x \in XhrIds, body \in RequestBodies : send(x, body))
       /\ UNCHANGED <<coordVars, uiVars, pageVars>>
    \/ (\E x \in XhrIds, text \in ResponseTexts : load(x, text))
       /\ UNCHANGED <<coordVars, uiVars, pageVars>>
    \/ (\E x \in XhrIds : error(x)) /\ UNCHANGED <<coordVars, uiVars, pageVars>>
    \/ (\E x \in XhrIds : mockTimer(x)) /\ UNCHANGED <<coordVars, uiVars, pageVars>>

SpecHook == Init /\ [][NextHook]_vars

\* The content script of tab 1 while the service worker is stopped and started
\* and a popup of the tab connects and sends messages
BridgeTraffic ==
    {[type |-> "snapshot-fetch"],
     MockSet(<<[operationName |-> "GetUser", customResponse |-> BodyA,
                activated |-> TRUE]>>)}

PopupTraffic ==
    \E c \in ConnIds, msg \in BridgeTraffic :
        /\ clock < MaxTraffic
        /\ conn[c] # Closed /\ conn[c].role = "popup"
        /\ onMessage(c, Datastore("popup", msg))
        /\ bridge' = Changed(bridge)

\* the worker is stopped and started: the channel of the content script is down
WorkerRestart ==
    /\ RestartWithin(MaxLosses)
    /\ bridge' = [bridge EXCEPT !.channel = IF @ = "up" THEN "down" ELSE @,
                                !.posted = <<>>]

NextBridge ==
    \/ Startup /\ UNCHANGED <<uiVars, hookVars, pageVars>>
    \/ (\E c \in ConnIds : contentScript(c)) /\ UNCHANGED <<uiVars, hookVars, page>>
    \/ ConnectPopup /\ UNCHANGED <<uiVars, hookVars, pageVars>>
    \/ PopupTraffic /\ UNCHANGED <<uiVars, hookVars, page>>
    \/ WorkerRestart /\ UNCHANGED <<uiVars, hookVars, page>>
    \/ portOnDisconnect /\ UNCHANGED <<coordVars, uiVars, hookVars, page>>
    \/ (\E c \in ConnIds : onChanged(c)) /\ UNCHANGED <<uiVars, hookVars, page>>
    \/ bridgeMessage /\ UNCHANGED <<uiVars, hookVars, page>>

SpecBridge == Init /\ [][NextBridge]_vars

\* the worker is stopped and started: the popup's channel is down, and what
\* the popup had posted is lost
PopupLoses ==
    /\ RestartWithin(MaxRestarts)
    /\ ui' = [ui EXCEPT !.channel = IF @ = "up" THEN "down" ELSE @,
                        !.lostAt = IF ui.channel = "up" THEN clock ELSE @]
    /\ toCoordinator' = <<>>
    /\ UNCHANGED <<file, toUI>>

\* The popup of tab 1 while its connection is lost again and again
NextRetry ==
    \/ Startup /\ UNCHANGED <<uiVars, hookVars, pageVars>>
    \/ (\E c \in ConnIds : connectPort(c)) /\ UNCHANGED <<hookVars, pageVars>>
    \/ connectPortNoReceiver /\ UNCHANGED <<coordVars, hookVars, pageVars>>
    \/ connectPortThrows /\ UNCHANGED <<coordVars, hookVars, pageVars>>
    \/ handleDisconnect /\ UNCHANGED <<coordVars, hookVars, pageVars>>
    \/ PopupLoses /\ UNCHANGED <<hookVars, pageVars>>
    \/ popupMessage /\ UNCHANGED <<hookVars, pageVars>>
    \/ handleMessage /\ UNCHANGED <<coordVars, hookVars, pageVars>>

SpecRetry == Init /\ [][NextRetry]_vars

\* what a Coordinator handler posts to the popup's port is on its way to the popup
Relay == /\ toUI' = toUI \o sent'[UITab]["popup"]
         /\ UNCHANGED <<ui, file, toCoordinator>>

\* the content script of the tab connects, and relays the captures of the page
BridgeConnects ==
    \E c \in ConnIds :
        /\ ports[UITab]["content-script"] = NoPort
        /\ onConnect(c, UITab, "content-script")

BridgeCaptures ==
    \E c \in ConnIds :
        /\ clock < MaxClock /\ toUI = <<>>
        /\ conn[c] # Closed /\ conn[c].role = "content-script"
        /\ onMessage(c, Datastore("content-script", Captured("GetUser", BodyA, clock + 1)))

\* the user switches mocking off in the popup
popupEdits ==
    /\ ui.channel = "up" /\ toCoordinator = <<>> /\ toUI = <<>>
    /\ ui.settings.globalMockEnabled
    /\ LET newSettings == [ui.settings EXCEPT !.globalMockEnabled = FALSE]
       IN  /\ toCoordinator' = updateSettings(ui.port, newSettings)
           /\ ui' = [ui EXCEPT !.settings = newSettings]
    /\ UNCHANGED <<file, toUI>>

\* The popup of tab 1 loses its connection and reconnects while the content
\* script of the tab relays captures
NextReconnect ==
    \/ Startup /\ Relay /\ UNCHANGED <<hookVars, pageVars>>
    \/ (\E c \in ConnIds : connectPort(c)) /\ UNCHANGED <<hookVars, pageVars>>
    \/ handleDisconnect /\ UNCHANGED <<coordVars, hookVars, pageVars>>
    \/ PopupLoses /\ UNCHANGED <<hookVars, pageVars>>
    \/ popupMessage /\ UNCHANGED <<hookVars, pageVars>>
    \/ handleMessage /\ UNCHANGED <<coordVars, hookVars, pageVars>>
    \/ popupEdits /\ UNCHANGED <<coordVars, hookVars, pageVars>>
    \/ BridgeConnects /\ UNCHANGED <<uiVars, hookVars, pageVars>>
    \/ BridgeCaptures /\ Relay /\ UNCHANGED <<hookVars, pageVars>>

SpecReconnect == Init /\ [][NextReconnect]_vars

\* Persistence: popups of both tabs connect and send intents, captures arrive,
\* tabs are closed, and the worker is stopped and started
PersistMessages ==
    {[type |-> "snapshot-fetch"], [type |-> "ping"],
     [type |-> "settings-update",
      settings |-> [globalMockEnabled |-> FALSE, darkMode |-> TRUE]],
     MockSet(<<[operationName |-> "GetUser", customResponse |-> BodyA,
                activated |-> TRUE]>>)}

\* the popup of tab 1 connects first, the popup of tab 2 second
ConnectAnyPopup == \E t \in Tabs : t \in ConnIds /\ onConnect(t, t, "popup")

NextPersist ==
    \/ Startup /\ UNCHANGED <<uiVars, hookVars, pageVars>>
    \/ ConnectAnyPopup /\ UNCHANGED <<uiVars, hookVars, pageVars>>
    \/ DeliverPlain(PersistMessages) /\ UNCHANGED <<uiVars, hookVars, pageVars>>
    \/ DeliverCaptured(MaxClock) /\ UNCHANGED <<uiVars, hookVars, pageVars>>
    \/ TabRemoved /\ UNCHANGED <<uiVars, hookVars, pageVars>>
    \/ Restart /\ UNCHANGED <<uiVars, hookVars, pageVars>>

SpecPersist == Init /\ [][NextPersist]_vars

\* The same page when appHook.js is injected into it again
\* Settings: the connections of both tabs and both roles come and go, Stores are
\* created by mock-sets, and any connection sets the Settings
SettingsMessages ==
    {MockSet(<<[operationName |-> "GetUser", customResponse |-> BodyA,
                activated |-> TRUE]>>)}
    \cup {[type |-> "settings-update", settings |-> s] : s \in SettingsValues}

NextSettings ==
    \/ Startup /\ UNCHANGED <<uiVars, hookVars, pageVars>>
    \/ Connect /\ UNCHANGED <<uiVars, hookVars, pageVars>>
    \/ Disconnect /\ UNCHANGED <<uiVars, hookVars, pageVars>>
    \/ DeliverPlain(SettingsMessages) /\ UNCHANGED <<uiVars, hookVars, pageVars>>

SpecSettings == Init /\ [][NextSettings]_vars

\* Routing: connections of both tabs come and go and deliver messages addressed
\* to the datastore or to a role, the keep-alive among them
RoutingMessages ==
    {[type |-> "ping"], [type |-> "snapshot-fetch"],
     MockSet(<<[operationName |-> "GetUser", customResponse |-> BodyA,
                activated |-> TRUE]>>)}

ForwardTo(M) ==
    \E c \in ConnIds, to \in Roles, msg \in M :
        /\ clock < MaxClock
        /\ onMessage(c, [from |-> conn[c].role, to |-> to, msg |-> msg])

NextRouting ==
    \/ Startup /\ UNCHANGED <<uiVars, hookVars, pageVars>>
    \/ Connect /\ UNCHANGED <<uiVars, hookVars, pageVars>>
    \/ Disconnect /\ UNCHANGED <<uiVars, hookVars, pageVars>>
    \/ DeliverPlain(RoutingMessages) /\ UNCHANGED <<uiVars, hookVars, pageVars>>
    \/ ForwardTo(RoutingMessages) /\ UNCHANGED <<uiVars, hookVars, pageVars>>

SpecRouting == Init /\ [][NextRouting]_vars

\* Badge: the popup of a tab edits mocks (activated or not) and the Settings,
\* and the tab is updated
BadgeMessages ==
    {MockSet(l) :
        l \in ListsOf([operationName : OperationNames, customResponse : {BodyA},
                       activated : BOOLEAN], MaxList)}
    \cup {[type |-> "settings-update", settings |-> s] : s \in SettingsValues}

NextBadge ==
    \/ ConnectPopup /\ UNCHANGED <<uiVars, hookVars, pageVars>>
    \/ DeliverPlain(BadgeMessages) /\ UNCHANGED <<uiVars, hookVars, pageVars>>
    \/ TabUpdated /\ UNCHANGED <<uiVars, hookVars, pageVars>>

SpecBadge == Init /\ [][NextBadge]_vars

\* Clearing: the popups of both tabs fill their Stores, set the Settings and
\* clear their tab
ClearMessages ==
    {[type |-> "clear-all"],
     [type |-> "settings-update",
      settings |-> [globalMockEnabled |-> FALSE, darkMode |-> TRUE]],
     MockSet(<<[operationName |-> "GetUser", customResponse |-> BodyA,
                activated |-> TRUE]>>)}

DeliverWithin(M, limit) ==
    \E c \in ConnIds, msg \in M :
        /\ clock < limit
        /\ onMessage(c, Datastore(conn[c].role, msg))

NextClear ==
    \/ ConnectAnyPopup /\ UNCHANGED <<uiVars, hookVars, pageVars>>
    \/ DeliverWithin(ClearMessages, MaxEdits) /\ UNCHANGED <<uiVars, hookVars, pageVars>>
    \/ DeliverCaptured(MaxEdits) /\ UNCHANGED <<uiVars, hookVars, pageVars>>

SpecClear == Init /\ [][NextClear]_vars

\* Mirror: the content script hands messages of its port to the page, with a
\* list of definitions (null bodies and repeated names included), with
\* Settings, with both or with neither, and the Hook's listener takes them
MirrorEntries ==
    {[operationName |-> "GetUser", customResponse |-> BodyA, activated |-> TRUE,
      delay |-> 0],
     [operationName |-> "GetUser", customResponse |-> BodyB, activated |-> FALSE,
      delay |-> 500],
     [operationName |-> "GetUser", customResponse |-> JsonNull, activated |-> FALSE,
      delay |-> 0],
     [operationName |-> "unknown", customResponse |-> BodyA, activated |-> TRUE,
      delay |-> 0]}

MirrorMessages ==
    LET lists == ListsOf(MirrorEntries, MaxList)
    IN  {[type |-> "snapshot"]}
        \cup {[type |-> "snapshot", graphqlCustomResponses |-> l] : l \in lists}
        \cup {[type |-> "snapshot", settings |-> st] : st \in HookSettings}
        \cup {[type |-> "snapshot", graphqlCustomResponses |-> l, settings |-> st] :
                l \in lists, st \in HookSettings}

BridgeEmits ==
    \E msg \in MirrorMessages :
        /\ bridge.emitted = <<>>
        /\ bridge' = handleMessageFromDevtools(
                         bridge, [from |-> "datastore", to |-> "content-script",
                                  msg |-> msg])

NextMirror ==
    \/ BridgeEmits /\ UNCHANGED <<coordVars, uiVars, hookVars, page>>
    \/ windowMessage /\ UNCHANGED <<coordVars, uiVars, page>>

SpecMirror == Init /\ [][NextMirror]_vars

\* Relay: the content script of tab 1 between the page and the Coordinator,
\* while a popup edits mocks, the worker is stopped and started, and scripts
\* of the page post messages under the Hook's tag: the Hook's captures, and
\* the messages any page script can post under it
PageMessages ==
    {Datastore("content-script", Captured("GetUser", BodyB, 1)),
     Datastore("content-script",
               MockSet(<<[operationName |-> "GetUser", customResponse |-> BodyB,
                          activated |-> TRUE]>>)),
     Datastore("content-script",
               [type |-> "settings-update",
                settings |-> [globalMockEnabled |-> FALSE, darkMode |-> TRUE]])}

pagePosts == \E data \in PageMessages :
                /\ Len(bridge.posted) < MaxPosted
                /\ webPageMessage(data)

RelayTraffic ==
    {MockSet(<<[operationName |-> "GetUser", customResponse |-> BodyA,
                activated |-> TRUE]>>)}

RelayPopupTraffic ==
    \E c \in ConnIds, msg \in RelayTraffic :
        /\ clock < MaxRelay
        /\ conn[c] # Closed /\ conn[c].role = "popup"
        /\ onMessage(c, Datastore("popup", msg))
        /\ bridge' = Inbound(Changed(bridge))

RelayBridgeMessage ==
    /\ bridge.posted # <<>> /\ bridge.channel = "up"
    /\ clock < MaxRelay
    /\ onMessage(bridge.conn, Head(bridge.posted))
    /\ bridge' = Inbound(Changed([bridge EXCEPT !.posted = Tail(@)]))

RelayRestart ==
    /\ RestartWithin(MaxLosses)
    /\ bridge' = [bridge EXCEPT !.channel = IF @ = "up" THEN "down" ELSE @,
                                !.posted = <<>>, !.inbox = <<>>]

NextRelay ==
    \/ (\E c \in ConnIds : contentScript(c)) /\ UNCHANGED <<uiVars, hookVars, page>>
    \/ ConnectPopup /\ UNCHANGED <<uiVars, hookVars, pageVars>>
    \/ RelayPopupTraffic /\ UNCHANGED <<uiVars, hookVars, page>>
    \/ RelayBridgeMessage /\ UNCHANGED <<uiVars, hookVars, page>>
    \/ RelayRestart /\ UNCHANGED <<uiVars, hookVars, page>>
    \/ portOnDisconnect /\ UNCHANGED <<coordVars, uiVars, hookVars, page>>
    \/ (\E c \in ConnIds : onChanged(c)) /\ UNCHANGED <<uiVars, hookVars, page>>
    \/ pagePosts /\ UNCHANGED <<coordVars, uiVars, hookVars, page>>
    \/ bridge.emitted = <<>> /\ portOnMessage
       /\ UNCHANGED <<coordVars, uiVars, hookVars, page>>
    \/ windowMessage /\ UNCHANGED <<coordVars, uiVars, page>>

SpecRelay == Init /\ [][NextRelay]_vars

\* Sync: the content script of tab 1 is connected, then a popup of the tab
\* sends mock-sets, settings-sets and clear-alls; the Coordinator's Snapshots
\* travel through the content script to the Hook, and every change of the
\* session area makes the content script ask for a Snapshot
NextSync ==
    \/ (\E c \in ConnIds : contentScript(c)) /\ UNCHANGED <<uiVars, hookVars, page>>
    \/ bridge.loaded /\ ConnectPopup /\ UNCHANGED <<uiVars, hookVars, pageVars>>
    \/ (\E c \in ConnIds, msg \in ClearMessages :
           /\ clock < MaxRelay
           /\ conn[c] # Closed /\ conn[c].role = "popup"
           /\ onMessage(c, Datastore("popup", msg))
           /\ bridge' = Inbound(Changed(bridge)))
       /\ UNCHANGED <<uiVars, hookVars, page>>
    \/ RelayBridgeMessage /\ UNCHANGED <<uiVars, hookVars, page>>
    \/ (\E c \in ConnIds : onChanged(c)) /\ UNCHANGED <<uiVars, hookVars, page>>
    \/ bridge.emitted = <<>> /\ portOnMessage
       /\ UNCHANGED <<coordVars, uiVars, hookVars, page>>
    \/ windowMessage /\ UNCHANGED <<coordVars, uiVars, page>>

SpecSync == Init /\ [][NextSync]_vars

\* The same traffic with every queued delivery eventually made.  The popup's
\* messages stop after MaxRelay; the content script's own requests are taken
\* while the clock is below MaxSettle, which no run of the program comes near:
\* a request follows a change of the session area only.
MaxSettle == 2 * MaxRelay + 2

SettleBridgeMessage ==
    /\ bridge.posted # <<>> /\ bridge.channel = "up"
    /\ clock < MaxSettle
    /\ onMessage(bridge.conn, Head(bridge.posted))
    /\ bridge' = Inbound(Changed([bridge EXCEPT !.posted = Tail(@)]))

NextSettle ==
    \/ (\E c \in ConnIds : contentScript(c)) /\ UNCHANGED <<uiVars, hookVars, page>>
    \/ bridge.loaded /\ ConnectPopup /\ UNCHANGED <<uiVars, hookVars, pageVars>>
    \/ (\E c \in ConnIds, msg \in ClearMessages :
           /\ clock < MaxRelay
           /\ conn[c] # Closed /\ conn[c].role = "popup"
           /\ onMessage(c, Datastore("popup", msg))
           /\ bridge' = Inbound(Changed(bridge)))
       /\ UNCHANGED <<uiVars, hookVars, page>>
    \/ SettleBridgeMessage /\ UNCHANGED <<uiVars, hookVars, page>>
    \/ (\E c \in ConnIds : onChanged(c)) /\ UNCHANGED <<uiVars, hookVars, page>>
    \/ portOnMessage /\ UNCHANGED <<coordVars, uiVars, hookVars, page>>
    \/ windowMessage /\ UNCHANGED <<coordVars, uiVars, page>>

\* the event loops of the service worker, the content script and the page
\* dispatch every event that is queued
SpecSettle ==
    /\ Init /\ [][NextSettle]_vars
    /\ WF_vars(SettleBridgeMessage /\ UNCHANGED <<uiVars, hookVars, page>>)
    /\ WF_vars((\E c \in ConnIds : onChanged(c)) /\ UNCHANGED <<uiVars, hookVars, page>>)
    /\ WF_vars(portOnMessage /\ UNCHANGED <<coordVars, uiVars, hookVars, page>>)
    /\ WF_vars(windowMessage /\ UNCHANGED <<coordVars, uiVars, page>>)

\* Isolation: connections of both tabs send every kind of datastore message
IsolationMessages == ClearMessages \cup {[type |-> "snapshot-fetch"]}

NextIsolation ==
    \/ Connect /\ UNCHANGED <<uiVars, hookVars, pageVars>>
    \/ DeliverWithin(IsolationMessages, MaxEdits)
       /\ UNCHANGED <<uiVars, hookVars, pageVars>>
    \/ DeliverCaptured(MaxEdits) /\ UNCHANGED <<uiVars, hookVars, pageVars>>

SpecIsolation == Init /\ [][NextIsolation]_vars

\* Events: the Hook's table gets an activated mock for GetUser, the page
\* opens an XHR to the endpoint, registers handlers, and sends a call for
\* GetUser or for an operation without a mock
EventBodies ==
    {Stored(Stringify([query |-> "query", operationName |-> "GetUser"])),
     Stored(Stringify([query |-> "query"]))}

NextEvents ==
    \/ /\ customGraphQLResponses = <<>>
       /\ listenFromContentScript(
              [graphqlCustomResponses |->
                  <<[operationName |-> "GetUser", customResponse |-> BodyA,
                     activated |-> TRUE, delay |-> 0]>>])
       /\ UNCHANGED <<coordVars, uiVars, pageVars>>
    \/ (\E x \in XhrIds : open(x, "POST", "/graphql"))
       /\ UNCHANGED <<coordVars, uiVars, pageVars>>
    \/ (\E x \in XhrIds, h \in PageHandlers : register(x, h))
       /\ UNCHANGED <<coordVars, uiVars, pageVars>>
    \/ (\E x \in XhrIds, body \in EventBodies : send(x, body))
       /\ UNCHANGED <<coordVars, uiVars, pageVars>>
    \/ (\E x \in XhrIds : load(x, Stringify(BodyB)))
       /\ UNCHANGED <<coordVars, uiVars, pageVars>>
    \/ (\E x \in XhrIds : mockTimer(x)) /\ UNCHANGED <<coordVars, uiVars, pageVars>>

SpecEvents == Init /\ [][NextEvents]_vars

\* Edit: the popup connects, the user edits mocks in the popup and in the
\* pop-out editor, and the Coordinator's Snapshots come back to the popup
NextEdit ==
    \/ (\E c \in ConnIds : connectPort(c)) /\ UNCHANGED <<hookVars, pageVars>>
    \/ saveMock /\ UNCHANGED <<coordVars, hookVars, pageVars>>
    \/ channelOnMessage /\ UNCHANGED <<coordVars, hookVars, pageVars>>
    \/ popupMessage /\ UNCHANGED <<hookVars, pageVars>>
    \/ handleMessage /\ UNCHANGED <<coordVars, hookVars, pageVars>>

SpecEdit == Init /\ [][NextEdit]_vars

\* Startup: a popup of tab 1 sends intents while the worker, started once
\* more, loads the persisted Settings and Stores
StartupMessages ==
    ClearMessages
    \cup {[type |-> "settings-update",
           settings |-> [globalMockEnabled |-> TRUE, darkMode |-> FALSE]]}

NextStartup ==
    \/ Startup /\ UNCHANGED <<uiVars, hookVars, pageVars>>
    \/ ConnectPopup /\ UNCHANGED <<uiVars, hookVars, pageVars>>
    \/ DeliverWithin(StartupMessages, MaxEdits) /\ UNCHANGED <<uiVars, hookVars, pageVars>>
    \/ Restart /\ UNCHANGED <<uiVars, hookVars, pageVars>>

SpecStartup == Init /\ [][NextStartup]_vars

\* Restore: the content script of tab 1 connects and relays captures of
\* GetUser while the worker, started once more, loads what it persisted
NextRestore ==
    \/ ConnectBridge /\ UNCHANGED <<uiVars, hookVars, pageVars>>
    \/ DeliverCaptured(MaxHistory)
       /\ handled'.message.msg.graphqlResponses[1].operationName = "GetUser"
       /\ UNCHANGED <<uiVars, hookVars, pageVars>>
    \/ Startup /\ UNCHANGED <<uiVars, hookVars, pageVars>>
    \/ Restart /\ UNCHANGED <<uiVars, hookVars, pageVars>>

SpecRestore == Init /\ [][NextRestore]_vars

\* Reload: a popup activates a mock for GetUser before the reload, the
\* Snapshots reach the Hook through the content script, the page is reloaded
\* and calls GetUser
pageCalls ==
    fetch(1, "/graphql", "POST",
          Stored(Stringify([query |-> "query", operationName |-> "GetUser"])))

\* the call's response arrives; the capture the Hook posts on the window is
\* handled by the content script's listener, when it is loaded
pageResolved ==
    \E text \in ResponseTexts :
        /\ fetchResolved(1, text)
        /\ IF call'.captures # call.captures /\ bridge.loaded
           THEN webPageMessage(Datastore("content-script",
                                         Captured("GetUser", Parse(text), 1)))
           ELSE UNCHANGED bridge

NextReload ==
    \/ (\E c \in ConnIds : contentScript(c)) /\ UNCHANGED <<uiVars, hookVars, page>>
    \/ ConnectPopup /\ UNCHANGED <<uiVars, hookVars, pageVars>>
    \/ page.loads = 0 /\ RelayPopupTraffic /\ UNCHANGED <<uiVars, hookVars, page>>
    \/ RelayBridgeMessage /\ UNCHANGED <<uiVars, hookVars, page>>
    \/ (\E c \in ConnIds : onChanged(c)) /\ UNCHANGED <<uiVars, hookVars, page>>
    \/ bridge.emitted = <<>> /\ portOnMessage
       /\ UNCHANGED <<coordVars, uiVars, hookVars, page>>
    \/ windowMessage /\ UNCHANGED <<coordVars, uiVars, page>>
    \/ reload /\ UNCHANGED uiVars
    \/ pageCalls /\ UNCHANGED <<coordVars, uiVars, pageVars>>
    \/ pageResolved /\ UNCHANGED <<coordVars, uiVars, page>>

SpecReload == Init /\ [][NextReload]_vars

NextInstall ==
    \/ NextHook
    \/ appHook /\ UNCHANGED <<coordVars, uiVars>>

SpecInstall == Init /\ [][NextInstall]_vars

----------------------------------------------------------------------------
\* Observers used by the properties
ResponsesOf(ss, t, op) ==
    IF ss[t] = NoStore THEN <<>> ELSE MapGet(ss[t].graphqlResponsesMap, op, <<>>)

MocksOf(ss, t) ==
    IF ss[t] = NoStore THEN <<>> ELSE graphqlCustomResponses(ss[t])

NewestFirst(l) == \A i \in 1..Len(l) - 1 : l[i].timestamp > l[i + 1].timestamp

IsCapture(h) == h.op = "onMessage" /\ h.message.to = "datastore"
                /\ h.message.msg.type = "graphql-response-captured"

\* C1: under capture intents alone, every operation's retained list has at most
\* ten entries, newest first, and a capture puts its entry at the head of its
\* operation's list, drops only what falls behind the tenth place and leaves
\* the other operations' lists alone.
C1_Retained ==
    \A t \in Tabs, op \in OperationNames :
        /\ Len(ResponsesOf(stores, t, op)) <= RetentionCap
        /\ NewestFirst(ResponsesOf(stores, t, op))
        /\ \A i \in 1..Len(ResponsesOf(stores, t, op)) :
              ResponsesOf(stores, t, op)[i].operationName = op

C1_CaptureStep ==
    IsCapture(handled') /\ clock' = clock + 1 =>
        LET t == handled'.tabId
            r == handled'.message.msg.graphqlResponses[1]
        IN  \A op \in OperationNames :
              ResponsesOf(stores', t, op) =
                 IF op = r.operationName
                 THEN Take(<<r>> \o ResponsesOf(stores, t, op), RetentionCap)
                 ELSE ResponsesOf(stores, t, op)

C1_RetentionCap == [](C1_Retained) /\ [][C1_CaptureStep]_vars

\* an eleventh capture of one operation has evicted the first
C1_Witness ==
    \E t \in Tabs, op \in OperationNames :
        /\ Len(ResponsesOf(stores, t, op)) = RetentionCap
        /\ ResponsesOf(stores, t, op)[1].timestamp = RetentionCap + 1
        /\ ResponsesOf(stores, t, op)[RetentionCap].timestamp = 2

IsMockSet(h) == h.op = "onMessage" /\ h.message.to = "datastore"
                /\ h.message.msg.type = "graphql-custom-response-update"
                /\ Has(h.message.msg, "graphqlCustomResponses")

Names(l) == {l[i].operationName : i \in 1..Len(l)}

\* the entry of l that is the last one for its operation name
IsLast(l, i) == \A j \in (i + 1)..Len(l) : l[j].operationName # l[i].operationName

\* C2 (as amended): a mock-set replaces the whole table: afterwards the table
\* holds exactly the operation names whose last entry in the supplied list has
\* a body other than the no-mock marker, each with that last entry as its
\* definition, whatever the table held before.
C2_Step ==
    IsMockSet(handled') /\ clock' = clock + 1 =>
        LET l == handled'.message.msg.graphqlCustomResponses
            table == MocksOf(stores', handled'.tabId)
        IN  /\ Names(table) =
                 {l[i].operationName : i \in {k \in 1..Len(l) :
                      IsLast(l, k) /\ l[k].customResponse # JsonNull}}
            /\ \A i \in 1..Len(l) :
                  IsLast(l, i) /\ l[i].customResponse # JsonNull =>
                      \E k \in 1..Len(table) : table[k] = l[i]

C2_OriginalStep ==
    IsMockSet(handled') /\ clock' = clock + 1 =>
        LET l == handled'.message.msg.graphqlCustomResponses
        IN  Names(MocksOf(stores', handled'.tabId)) =
               {l[i].operationName : i \in {k \in 1..Len(l) :
                    l[k].customResponse # JsonNull}}

C3_OneMockPerName ==
    \A t \in Tabs :
        stores[t] # NoStore =>
            LET m == stores[t].graphqlCustomResponsesMap
            IN  /\ \A i, j \in 1..Len(m) : m[i].key = m[j].key => i = j
                /\ \A i \in 1..Len(m) :
                      /\ m[i].val.operationName = m[i].key
                      /\ m[i].val.customResponse # JsonNull

\* a mock-set that names an operation with a body and then with the marker has
\* left no definition for it
C3_Witness ==
    /\ IsMockSet(handled)
    /\ LET l == handled.message.msg.graphqlCustomResponses
       IN  /\ Len(l) = 2
           /\ l[1].operationName = l[2].operationName
           /\ l[1].customResponse # JsonNull
           /\ l[2].customResponse = JsonNull
           /\ stores[handled.tabId] # NoStore
           /\ l[1].operationName \notin Names(MocksOf(stores, handled.tabId))

IsIntent(h) == h.op = "onMessage" /\ h.message.to = "datastore"
               /\ h.message.msg.type # "ping"

\* the state of tab t as a Snapshot carries it: the captured responses, the
\* mock definitions and the current (global) Settings
StateOf(ss, gs, t) ==
    [type |-> "snapshot",
     graphqlResponses |-> graphqlResponses(ss[t]),
     graphqlCustomResponses |-> graphqlCustomResponses(ss[t]),
     settings |-> gs]

IsFull(m) == Has(m.msg, "graphqlResponses")

\* the Snapshots of the fan-out among the posts to one port, as sent
Broadcast(posts) == [i \in 1..Len(SelectSeq(posts, IsFull)) |->
                        SelectSeq(posts, IsFull)[i].msg]

\* C4: when the Coordinator handles a message addressed to the datastore for
\* tab T (any type but the keep-alive), the port registered for each of T's
\* roles is posted a Snapshot equal to T's state after the message, as the last
\* Snapshot of the fan-out; the fan-out is the same for both roles, whoever
\* sent the message, and nothing is posted to the popup beyond it.
C4_Step ==
    IsIntent(handled') /\ clock' = clock + 1 =>
        LET t == handled'.tabId
        IN  /\ \A r \in Roles :
                 ports[t][r] # NoPort =>
                    /\ Broadcast(sent'[t][r]) # <<>>
                    /\ Broadcast(sent'[t][r])[Len(Broadcast(sent'[t][r]))]
                          = StateOf(stores', globalSettings', t)
                    /\ \A i \in 1..Len(sent'[t][r]) :
                          /\ sent'[t][r][i].from = "datastore"
                          /\ sent'[t][r][i].to = r
                          /\ sent'[t][r][i].msg.type = "snapshot"
            /\ ports[t]["popup"] # NoPort /\ ports[t]["content-script"] # NoPort =>
                  Broadcast(sent'[t]["popup"]) = Broadcast(sent'[t]["content-script"])
            /\ Len(Broadcast(sent'[t]["popup"])) = Len(sent'[t]["popup"])

C4_FanOut == [][C4_Step]_vars

\* a popup has sent a mock-set while a popup and a content script are
\* registered, and both were posted the Snapshot with the new table
C4_Witness ==
    /\ IsMockSet(handled) /\ handled.message.from = "popup"
    /\ Names(MocksOf(stores, handled.tabId)) = {"GetUser"}
    /\ \A r \in Roles :
          /\ ports[handled.tabId][r] # NoPort
          /\ \E i \in 1..Len(sent[handled.tabId][r]) :
                sent[handled.tabId][r][i].msg
                   = StateOf(stores, globalSettings, handled.tabId)

\* C5 (as amended): every Snapshot the Coordinator sends carries the tab's mock
\* definitions and the Settings; the Snapshots of the fan-out carry the tab's
\* captured responses as well, and the one Snapshot without them is the last
\* post to the content script after a mock-set or a settings-set, carrying the
\* tab's mock table and the Settings.
C5_SnapshotContent ==
    \A t \in Tabs, r \in Roles :
        \A i \in 1..Len(sent[t][r]) :
            LET m == sent[t][r][i]
            IN  m.from = "datastore" /\ m.msg.type = "snapshot" =>
                   /\ Has(m.msg, "graphqlCustomResponses")
                   /\ Has(m.msg, "settings")
                   /\ m.msg.settings = globalSettings
                   /\ \/ IsFull(m)
                      \/ /\ r = "content-script"
                         /\ i = Len(sent[t][r])
                         /\ IsIntent(handled) /\ handled.tabId = t
                         /\ handled.message.msg.type \in
                               {"graphql-custom-response-update", "settings-update"}
                         /\ m.msg.graphqlCustomResponses = MocksOf(stores, t)

\* C5 as stated: every Snapshot carries captured responses, mocks and Settings
C5_Original ==
    \A t \in Tabs, r \in Roles :
        \A i \in 1..Len(sent[t][r]) :
            sent[t][r][i].from = "datastore" /\ sent[t][r][i].msg.type = "snapshot" =>
                /\ Has(sent[t][r][i].msg, "graphqlResponses")
                /\ Has(sent[t][r][i].msg, "graphqlCustomResponses")
                /\ Has(sent[t][r][i].msg, "settings")

\* a mock-set has been answered with a full Snapshot to the popup and, last, a
\* Snapshot without captured responses to the content script
C5_Witness ==
    /\ IsMockSet(handled)
    /\ Names(MocksOf(stores, handled.tabId)) = {"GetUser"}
    /\ sent[handled.tabId]["popup"] # <<>>
    /\ \A i \in 1..Len(sent[handled.tabId]["popup"]) :
          IsFull(sent[handled.tabId]["popup"][i])
    /\ sent[handled.tabId]["content-script"] # <<>>
    /\ ~IsFull(sent[handled.tabId]["content-script"]
                  [Len(sent[handled.tabId]["content-script"])])

\* C6: a file exported with any table and Settings, imported through the popup
\* connected to a Coordinator that held nothing: once every message that
\* resulted has been handled, the tab's mock table holds every exported
\* definition and the global Settings are the exported Settings.
C6_ImportRoundTrip ==
    /\ ui.import.phase = "done"
    /\ ui.import.port # NoPort /\ ui.port # NoPort
    /\ toCoordinator = <<>> /\ toUI = <<>>
    => LET data == Parse(ValueOf(file))
       IN  /\ \A i \in 1..Len(data.customResponses) :
                 \E k \in 1..Len(MocksOf(stores, UITab)) :
                     MocksOf(stores, UITab)[k] = data.customResponses[i]
           /\ globalSettings = data.settings

\* the call is GraphQL by the three conditions: the URL contains /graphql, the
\* method is POST, the body is JSON with a query or an operationName
Classified(c) == includes(c.url) /\ c.method = "POST" /\ hasGraphQL(c.body)

\* the value of a body the call site got, read as JSON where it is text
BodyValue(b) == IF Has(b, "text") THEN Parse(b) ELSE b

\* C7: a classified call, fetch or XHR, on a fresh or a reused object, for whose
\* operation the table served no mock when the call was made, has invoked the
\* original primitive exactly once.
C7_RealCallOnce ==
    call.sent /\ Classified(call) /\ call.mock = Undefined => call.originals = 1

\* C8: a classified call for whose operation the table served a mock when the
\* call was made never invokes the original primitive, and once it has its
\* outcome the call site has status 200 with the mock body and exactly one
\* capture event with that body was emitted.
C8_MockServed ==
    call.sent /\ Classified(call) /\ call.mock # Undefined =>
        /\ call.originals = 0
        /\ call.settled =>
              /\ ValueOf(call.observed).status = 200
              /\ BodyValue(ValueOf(call.observed).body) = ValueOf(call.mock)
              /\ call.captures =
                     <<Capture(operationNameOf(call.body), ValueOf(call.mock))>>

\* C9: the Hook treats a call as GraphQL exactly when the three conditions
\* hold, and a call that fails one of them goes to the original primitive once,
\* is not served a mock and is not captured.
C9_Classification ==
    call.sent =>
        /\ call.isGraphQL <=> Classified(call)
        /\ ~Classified(call) =>
              /\ call.originals = 1
              /\ call.captures = <<>>

\* C10: a classified call, real or mocked, fetch or XHR, on a fresh or a reused
\* object, that got a response whose body is valid JSON has produced exactly
\* one capture event, with the call's operation name and that response.
C10_OneCapture ==
    /\ call.sent /\ Classified(call) /\ call.settled
    /\ ValueOf(call.observed).status = 200
    /\ BodyValue(ValueOf(call.observed).body) # SyntaxError
    => call.captures = <<Capture(operationNameOf(call.body),
                                 BodyValue(ValueOf(call.observed).body))>>

\* C11: when appHook.js runs again in the page, the page-global is still
\* defined once with one message listener, every call passes through one
\* wrapper and its one classification step, and no call produces more than
\* one capture event.
C11_Idempotent ==
    /\ page.__GRAPHQL_MOCKER__ = 1
    /\ page.messageListeners = 1
    /\ call.sent => /\ call.steps = 1
                    /\ Len(call.captures) <= 1

\* C12: whenever the content script has been told that its connection is lost,
\* its `port` is cleared, and the next change of the session storage area makes
\* it connect anew and post a SnapshotRequest on the new connection.
C12_Cleared == bridge.channel = "closed" => bridge.port = NoPort

C12_Step ==
    bridge.changed /\ ~bridge'.changed /\ bridge.channel = "closed" =>
        /\ bridge'.channel = "up"
        /\ bridge'.made = bridge.made + 1
        /\ bridge'.posted = <<SnapshotRequest>>

C12_Reconnects == [](C12_Cleared) /\ [][C12_Step]_vars

\* C13: a popup whose connection keeps being lost makes at most five
\* reconnect attempts without a connection being established in between, and
\* with five made no further attempt is scheduled.
C13_BoundedRetries ==
    /\ ui.retries <= MAX_RECONNECT_ATTEMPTS
    /\ ui.retries = MAX_RECONNECT_ATTEMPTS => ~ui.reconnectTimeout

\* the popup is connected and no message to it or from it is under way
Quiet == /\ ui.channel = "up" /\ toCoordinator = <<>> /\ toUI = <<>>
         /\ loadPhase = "done"

\* C14: a popup that is connected, again or for the first time, and has
\* handled every message sent to it holds the tab's current state: the
\* captured responses, the mocks and the Settings of the tab's Store as they
\* are now, with what was applied while the popup was disconnected.
C14_CaughtUp ==
    Quiet =>
        /\ stores[UITab] # NoStore
        /\ ui.graphqlResponses = graphqlResponses(stores[UITab])
        /\ ui.graphqlCustomResponses = graphqlCustomResponses(stores[UITab])
        /\ ui.settings = globalSettings

\* the popup has reconnected and holds a capture that the Coordinator was
\* given after the popup lost its connection and before it had a new one
C14_Witness ==
    /\ Quiet /\ restarts > 0
    /\ \E i \in 1..Len(ui.graphqlResponses) :
          /\ ui.lostAt < ui.graphqlResponses[i].timestamp
          /\ ui.graphqlResponses[i].timestamp <= ui.connectedAt

\* the step in which loadStoresFromStorage sets up the Stores from the session
\* record it read
IsRestore ==
    /\ restarts > 0
    /\ loadPhase = "session" /\ loadPhase' = "done" /\ sessionRead # Undefined

\* the Settings persisted in the local area, the defaults when there are none
PersistedSettings ==
    IF localStorage = Undefined THEN DEFAULT_SETTINGS ELSE ValueOf(localStorage)

\* C15: when the restarted Coordinator restores the session record, the Store
\* of every tab in the record reports exactly the captured responses and the
\* mocks of the tab's blob, in the blob's order, and its Settings are the
\* Settings persisted in the local area.
C15_Step ==
    IsRestore =>
        \A b \in 1..Len(ValueOf(sessionRead)) :
            LET blob == ValueOf(sessionRead)[b]
                st == stores'[blob.tabId]
            IN  /\ st # NoStore
                /\ graphqlResponses(st) = blob.graphqlResponses
                /\ graphqlCustomResponses(st) = blob.graphqlCustomResponses
                /\ st.settings = PersistedSettings

C15_RestoreExact == [][C15_Step]_vars

\* the record in the session area holds one blob for each tab that has a
\* Store, with that Store's captured responses, mocks and Settings, and no
\* other blob
Serialized(record, ss) ==
    /\ record # Undefined
    /\ LET blobs == ValueOf(record)
       IN  /\ \A t \in Tabs :
                 Cardinality({b \in 1..Len(blobs) : blobs[b].tabId = t})
                    = IF ss[t] = NoStore THEN 0 ELSE 1
           /\ \A b \in 1..Len(blobs) :
                 /\ blobs[b].tabId \in Tabs
                 /\ blobs[b].graphqlResponses = graphqlResponses(ss[blobs[b].tabId])
                 /\ blobs[b].graphqlCustomResponses
                       = graphqlCustomResponses(ss[blobs[b].tabId])
                 /\ blobs[b].settings = ss[blobs[b].tabId].settings

\* C16 (as amended): when the Coordinator has handled a message addressed to
\* the datastore (other than the keep-alive) or a tab-closed signal, the record
\* in the session area is the serialization of the Stores that exist then: one
\* blob per live tab, none for a removed tab.
C16_Step ==
    IsIntent(handled') \/ handled'.op = "onRemoved" =>
        Serialized(sessionStorage', stores')

C16_Persisted == [][C16_Step]_vars

\* C16 as stated: the same after any message addressed to the datastore, the
\* keep-alive included
C16_OriginalStep ==
    \/ handled'.op = "onMessage" /\ handled'.message.to = "datastore"
    \/ handled'.op = "onRemoved"
    => Serialized(sessionStorage', stores')

C16_Original == [][C16_OriginalStep]_vars

\* tab 1 was closed while tab 2 has a Store with a mock: the record holds the
\* blob of tab 2 alone
C16_Witness ==
    /\ handled.op = "onRemoved" /\ handled.tabId = 1
    /\ stores[1] = NoStore /\ MocksOf(stores, 2) # <<>>
    /\ Len(ValueOf(sessionStorage)) = 1
    /\ ValueOf(sessionStorage)[1].tabId = 2

IsSettingsSet(h) == IsIntent(h) /\ h.message.msg.type = "settings-update"
                    /\ Has(h.message.msg, "settings")

\* C17: when the Coordinator handles a settings-set received on any connection,
\* the global Settings become the Settings of the message, the local storage
\* area holds them, every Store that existed keeps existing and every existing
\* Store (the sender's included) has them, and for every tab with a Store each
\* registered port is posted Snapshots, all of them carrying the new Settings,
\* the last full one equal to that tab's state.
C17_Step ==
    IsSettingsSet(handled') =>
        LET new == handled'.message.msg.settings
        IN  /\ globalSettings' = new
            /\ localStorage' = Stored(new)
            /\ stores'[handled'.tabId] # NoStore
            /\ \A t \in Tabs :
                  /\ stores[t] # NoStore => stores'[t] # NoStore
                  /\ stores'[t] # NoStore =>
                        /\ stores'[t].settings = new
                        /\ \A r \in Roles :
                              ports[t][r] # NoPort =>
                                 /\ Broadcast(sent'[t][r]) # <<>>
                                 /\ Broadcast(sent'[t][r])[Len(Broadcast(sent'[t][r]))]
                                       = StateOf(stores', new, t)
                                 /\ \A i \in 1..Len(sent'[t][r]) :
                                       /\ sent'[t][r][i].msg.type = "snapshot"
                                       /\ sent'[t][r][i].msg.settings = new

C17_SettingsGlobal == [][C17_Step]_vars

\* a connection of tab 1 has set Settings other than the defaults while tab 2
\* had a Store with a mock and a registered popup, which was posted tab 2's
\* state with the new Settings
C17_Witness ==
    /\ IsSettingsSet(handled) /\ handled.tabId = 1
    /\ globalSettings # DEFAULT_SETTINGS
    /\ localStorage = Stored(globalSettings)
    /\ stores[2] # NoStore /\ MocksOf(stores, 2) # <<>>
    /\ stores[2].settings = globalSettings
    /\ ports[2]["popup"] # NoPort
    /\ sent[2]["popup"] = <<[from |-> "datastore", to |-> "popup",
                             msg |-> StateOf(stores, globalSettings, 2)]>>

\* the session record holds no blob of tab t
NoBlob(record, t) ==
    record = Undefined \/ \A b \in 1..Len(ValueOf(record)) : ValueOf(record)[b].tabId # t

\* the tab-closed signal leaves no Store, no routing entry and no blob of the tab
C18_Removed ==
    handled'.op = "onRemoved" =>
        /\ stores'[handled'.tabId] = NoStore
        /\ ports'[handled'.tabId] = NoPorts
        /\ NoBlob(sessionStorage', handled'.tabId)

\* the restore of a restarted Coordinator creates no Store for a tab that has
\* neither a Store nor a blob in the session record
C18_NotRecreated ==
    restarts > 0 /\ loadPhase = "session" /\ loadPhase' = "done" =>
        \A t \in Tabs :
            stores[t] = NoStore /\ NoBlob(sessionStorage, t) => stores'[t] = NoStore

\* C18: a tab-closed signal removes the tab's Store and its routing entries and
\* writes a session record without a blob of the tab, and the restore after a
\* restart does not bring the state of a tab without a blob back.
C18_Teardown == [][C18_Removed /\ C18_NotRecreated]_vars

IsPing(h) == h.op = "onMessage" /\ h.message.msg.type = "ping"

\* C19: when the Coordinator handles a keep-alive, whatever its destination and
\* whichever connection delivered it, no Store is created or changed, nothing
\* is posted to any port (no Snapshot, no forwarded message), and neither
\* storage area, the global Settings nor the routing table changes.
C19_Step ==
    IsPing(handled') =>
        /\ stores' = stores
        /\ \A t \in Tabs, r \in Roles : sent'[t][r] = <<>>
        /\ sessionStorage' = sessionStorage
        /\ localStorage' = localStorage
        /\ globalSettings' = globalSettings
        /\ ports' = ports

C19_KeepAlive == [][C19_Step]_vars

\* a popup has sent a keep-alive to the datastore on a tab that has no Store
\* while a popup and a content script are registered for it and another tab's
\* Store is persisted: nothing was posted and no Store was created
C19_Witness ==
    /\ IsPing(handled) /\ handled.message.to = "datastore"
    /\ handled.message.from = "popup"
    /\ \A r \in Roles : ports[handled.tabId][r] # NoPort
    /\ stores[handled.tabId] = NoStore
    /\ \E t \in Tabs : stores[t] # NoStore /\ MocksOf(stores, t) # <<>>
    /\ sessionStorage # Undefined
    /\ sent = NoPosts

IsRouted(h) == h.op = "onMessage" /\ h.message.to # "datastore"

\* the effect of the forwarding branch on the step that handled message m
Forwarded(m, t) ==
    /\ \A u \in Tabs, r \in Roles :
          sent'[u][r] = IF u = t /\ r = m.to /\ ports[t][r] # NoPort
                        THEN <<m>> ELSE <<>>
    /\ stores' = stores
    /\ sessionStorage' = sessionStorage
    /\ localStorage' = localStorage

\* C20 (as amended): a message addressed to a role, other than a keep-alive, is
\* posted as it is to the port registered for that role on the sender's tab
\* and to no other port, or to none when no port is registered; no Store is
\* created or changed and neither storage area is written.
C20_Step ==
    IsRouted(handled') /\ ~IsPing(handled') =>
        Forwarded(handled'.message, handled'.tabId)

C20_OriginalStep ==
    IsRouted(handled') => Forwarded(handled'.message, handled'.tabId)

C21_Activated(st) ==
    Cardinality({i \in 1..Len(graphqlCustomResponses(st)) :
                    graphqlCustomResponses(st)[i].activated})

\* the indicator the badge rule gives for a Store
C21_Rule(st) ==
    IF C21_Activated(st) = 0 THEN ""
    ELSE IF st.settings.globalMockEnabled THEN ToString(C21_Activated(st))
    ELSE "paused"

\* C21: whenever the Coordinator computes the badge of a tab (after a message
\* addressed to the datastore for the tab, for every tab after a settings-set,
\* and on a tab update) the badge is the number of activated mocks of the tab's
\* Store when there is one and the Store's global-enabled flag is true, the
\* paused indicator when there is one and the flag is false, and empty when no
\* mock is activated.
C21_Step ==
    /\ IsIntent(handled') =>
          badge'[handled'.tabId] = C21_Rule(stores'[handled'.tabId])
    /\ IsSettingsSet(handled') =>
          \A t \in Tabs : stores'[t] # NoStore => badge'[t] = C21_Rule(stores'[t])
    /\ handled'.op = "onUpdated" /\ stores'[handled'.tabId] # NoStore =>
          badge'[handled'.tabId] = C21_Rule(stores'[handled'.tabId])

C21_BadgeRule == [][C21_Step]_vars

\* a mock-set has left two mocks of which one is activated while the flag is
\* true, and the badge shows 1
C21_Witness ==
    /\ IsMockSet(handled)
    /\ Len(MocksOf(stores, handled.tabId)) = 2
    /\ C21_Activated(stores[handled.tabId]) = 1
    /\ stores[handled.tabId].settings.globalMockEnabled
    /\ badge[handled.tabId] = "1"

\* C22: when the Coordinator handles a clear-all for a tab, the tab's Store
\* reports no captured response and no mock afterwards, the global Settings
\* and the Settings of every Store that existed are what they were, and every
\* other tab's Store is unchanged.
C22_Step ==
    IsIntent(handled') /\ handled'.message.msg.type = "clear-all" =>
        LET t == handled'.tabId
        IN  /\ stores'[t] # NoStore
            /\ graphqlResponses(stores'[t]) = <<>>
            /\ graphqlCustomResponses(stores'[t]) = <<>>
            /\ globalSettings' = globalSettings
            /\ localStorage' = localStorage
            /\ stores'[t].settings
                  = IF stores[t] = NoStore THEN globalSettings ELSE stores[t].settings
            /\ \A u \in Tabs \ {t} : stores'[u] = stores[u]

C22_ClearAll == [][C22_Step]_vars

\* tab 1 has been cleared while tab 2 holds a mock and the Settings are not
\* the defaults: tab 1's popup was posted the empty state
C22_Witness ==
    /\ IsIntent(handled) /\ handled.message.msg.type = "clear-all"
    /\ handled.tabId = 1
    /\ MocksOf(stores, 1) = <<>> /\ graphqlResponses(stores[1]) = <<>>
    /\ stores[2] # NoStore /\ MocksOf(stores, 2) # <<>>
    /\ globalSettings # DEFAULT_SETTINGS /\ stores[1].settings = globalSettings
    /\ sent[1]["popup"] # <<>>

\* the step on which the Hook's listener takes the oldest window message
C23_Received == bridge.emitted # <<>> /\ bridge'.emitted = Tail(bridge.emitted)

C23_Entry(item) == [response |-> item.customResponse, activated |-> item.activated,
                    delay |-> item.delay]

\* the entries of list l that give operation name n a body
C23_Given(l, n) ==
    {i \in 1..Len(l) : l[i].operationName = n /\ l[i].customResponse # JsonNull}

C23_Last(S) == CHOOSE i \in S : \A j \in S : j <= i

\* C23 (as amended): when the Hook takes a message of the content script that
\* carries a list of definitions, its table afterwards holds exactly the
\* operation names to which the list gives a body, each with the last such
\* entry of the list, whatever the table held before; when the message carries
\* Settings the mirror equals them; what the message does not carry is left
\* as it was.
C23_Step ==
    C23_Received =>
        LET msg == Head(bridge.emitted).message.msg
        IN  /\ IF Has(msg, "graphqlCustomResponses")
               THEN LET l == msg.graphqlCustomResponses
                    IN  /\ \A i \in 1..Len(customGraphQLResponses') :
                              customGraphQLResponses'[i].key \in OperationNames
                        /\ \A n \in OperationNames :
                              IF C23_Given(l, n) = {}
                              THEN ~MapHas(customGraphQLResponses', n)
                              ELSE /\ MapHas(customGraphQLResponses', n)
                                   /\ MapGet(customGraphQLResponses', n, NoEntry)
                                         = C23_Entry(l[C23_Last(C23_Given(l, n))])
               ELSE customGraphQLResponses' = customGraphQLResponses
            /\ mockerSettings' = IF Has(msg, "settings") THEN msg.settings
                                 ELSE mockerSettings

C23_OriginalStep ==
    C23_Received =>
        LET msg == Head(bridge.emitted).message.msg
        IN  /\ IF Has(msg, "graphqlCustomResponses")
               THEN [i \in 1..Len(customGraphQLResponses') |->
                       [operationName |-> customGraphQLResponses'[i].key,
                        customResponse |-> customGraphQLResponses'[i].val.response,
                        activated |-> customGraphQLResponses'[i].val.activated,
                        delay |-> customGraphQLResponses'[i].val.delay]]
                    = SelectSeq(msg.graphqlCustomResponses,
                                LAMBDA e : e.customResponse # JsonNull)
               ELSE customGraphQLResponses' = customGraphQLResponses
            /\ mockerSettings' = IF Has(msg, "settings") THEN msg.settings
                                 ELSE mockerSettings

C24_Classification ==
    /\ call.sent /\ includes(call.url)
    /\ call.body # Undefined /\ Parse(ValueOf(call.body)) = SyntaxError
    => /\ call.originals = 1
       /\ call.captures = <<>>

\* a real response whose body is not JSON reaches the call site as the network
\* gave it (for an XHR with responseType json the browser's null) and adds no
\* capture event
C24_CaptureStep ==
    /\ \A f \in FetchIds, text \in ResponseTexts :
          fetchResolved(f, text) /\ Parse(text) = SyntaxError =>
             /\ call'.captures = call.captures
             /\ call'.observed = Stored([status |-> 200, body |-> text])
    /\ \A x \in XhrIds, text \in ResponseTexts :
          load(x, text) /\ Parse(text) = SyntaxError =>
             /\ call'.captures = call.captures
             /\ call'.observed =
                   Stored([status |-> 200,
                           body |-> IF xhrs[x].responseType = "json" THEN JsonNull
                                    ELSE text])

\* C24: a request body that is not parseable as JSON makes the call proceed
\* through the original primitive exactly once with nothing captured, and a
\* real response body that is not valid JSON leaves what the call site gets
\* unchanged with nothing captured.
C24_Failures == [](C24_Classification) /\ [][C24_CaptureStep]_vars

\* the Coordinator has at most one open connection of the content script, and
\* the newest Port object is the only one that can be open
C25_OneConnection ==
    Cardinality({c \in ConnIds : conn[c] # Closed /\ conn[c].role = "content-script"}) <= 1

\* a page message tagged as the Hook's is appended as it is to what the open
\* connection carries, and without an open connection it goes nowhere and no
\* exception is thrown
C25_Forwarded ==
    \A data \in PageMessages :
        webPageMessage(data) =>
            IF bridge.channel = "up"
            THEN bridge'.posted = Append(bridge.posted, data)
            ELSE /\ bridge'.posted = bridge.posted
                 /\ bridge'.threw = bridge.threw

\* a message of the Coordinator is posted into the page as it is, under the
\* content script's tag
C25_Emitted ==
    portOnMessage =>
        /\ Len(bridge'.emitted) = Len(bridge.emitted) + 1
        /\ bridge'.emitted[Len(bridge'.emitted)].source = "graphql-mocker-content-script"
        /\ bridge'.emitted[Len(bridge'.emitted)].message = Head(bridge.inbox)

\* C25: the Bridge has at most one open connection to the Coordinator; a page
\* message tagged as the Hook's is forwarded as it is on that connection when
\* there is one and is otherwise dropped, not queued, with no error; every
\* message of the Coordinator is re-emitted into the page as it is under the
\* Bridge's tag.
C25_Relay == [](C25_OneConnection) /\ [][C25_Forwarded /\ C25_Emitted]_vars

\* C26: a message the Coordinator takes from the content script's connection
\* changes neither the mock table of the tab's Store nor the Settings.
C26_Step ==
    RelayBridgeMessage =>
        /\ MocksOf(stores', 1) = MocksOf(stores, 1)
        /\ globalSettings' = globalSettings
        /\ localStorage' = localStorage

C26_PageCannotEdit == [][C26_Step]_vars

\* nothing is on its way between the Coordinator, the content script and the Hook
C27_Settled ==
    /\ bridge.inbox = <<>> /\ bridge.emitted = <<>> /\ bridge.posted = <<>>
    /\ ~bridge.changed

\* C27: when the reloaded page, with its content script loaded and nothing on
\* its way, makes a classified call for an operation for which the tab's Store
\* holds an activated mock while global mocking is enabled, the call is served
\* that mock and does not reach the network.
C27_Step ==
    /\ pageCalls
    /\ page.loads > 0 /\ bridge.loaded /\ C27_Settled
    /\ globalSettings.globalMockEnabled
    /\ \E i \in 1..Len(MocksOf(stores, 1)) :
          /\ MocksOf(stores, 1)[i].operationName = "GetUser"
          /\ MocksOf(stores, 1)[i].activated
    => /\ call'.mock # Undefined
       /\ call'.originals = 0

C27_MockedAfterReload == [][C27_Step]_vars

\* C28: in every reachable state of the Coordinator, also after a restore
\* that follows captures handled during startup, no operation name of any tab
\* has more than RetentionCap captured responses.
C28_Capped ==
    \A t \in Tabs, op \in OperationNames :
        Len(ResponsesOf(stores, t, op)) <= RetentionCap

\* connection c is open and no other open connection has its tab and role: it
\* is the newest connection accepted for them
C29_Newest(c) ==
    /\ conn[c] # Closed
    /\ \A d \in ConnIds \ {c} : conn[d] # conn[c]

\* an accepted connection takes the table entry of its tab and role, whatever
\* the entry held, and no other entry changes
C29_AcceptStep ==
    \A c \in ConnIds :
        conn[c] = Closed /\ conn'[c] # Closed =>
            \A t \in Tabs, r \in Roles :
                ports'[t][r] = IF t = conn'[c].tab /\ r = conn'[c].role THEN c
                               ELSE ports[t][r]

\* what the Coordinator posts for a tab and role is posted on the newest
\* connection accepted for them
C29_DeliverStep ==
    /\ IsIntent(handled') /\ clock' = clock + 1 =>
          \A c \in ConnIds :
              C29_Newest(c) /\ conn[c].tab = handled'.tabId =>
                  /\ ports[conn[c].tab][conn[c].role] = c
                  /\ sent'[conn[c].tab][conn[c].role] # <<>>
    /\ IsRouted(handled') /\ ~IsPing(handled') =>
          \A c \in ConnIds :
              /\ C29_Newest(c) /\ conn[c].tab = handled'.tabId
              /\ conn[c].role = handled'.message.to
              => /\ ports[conn[c].tab][conn[c].role] = c
                 /\ sent'[conn[c].tab][conn[c].role] = <<handled'.message>>

\* C29: the routing table holds one connection per tab and role; a second
\* connection accepted for the same tab and role replaces the first, and from
\* then on fan-out and forwarding for them go to the newer connection.
C29_NewerOnly == [][C29_AcceptStep /\ C29_DeliverStep]_vars

\* C30: a connection that is registered in the routing table and does not
\* itself disconnect stays registered when another connection disconnects,
\* also an older one that it replaced for the same tab and role.
C30_Step ==
    handled'.op = "onDisconnect" =>
        \A c \in ConnIds :
            /\ conn[c] # Closed /\ conn'[c] # Closed
            /\ ports[conn[c].tab][conn[c].role] = c
            => ports'[conn[c].tab][conn[c].role] = c

C30_StaysRegistered == [][C30_Step]_vars

\* the badge every tab with a Store should show: the badge rule applied to the
\* Store's mock table and the global-enabled flag
C31_Shown ==
    \A t \in Tabs :
        stores[t] # NoStore =>
            badge[t] = IF C21_Activated(stores[t]) = 0 THEN ""
                       ELSE IF globalSettings.globalMockEnabled
                            THEN ToString(C21_Activated(stores[t]))
                       ELSE "paused"

\* C31: after the startup restore, and after every message that changes a
\* tab's Store or the Settings, the badge of every tab that has a Store is the
\* one the badge rule gives for the Store's mock table and the global-enabled
\* flag.
C31_Step ==
    \/ handled'.op = "loadStores"
    \/ IsIntent(handled') /\ (stores' # stores \/ globalSettings' # globalSettings)
    => C31_Shown'

C31_BadgeCurrent == [][C31_Step]_vars

\* C32: in every reachable state the Settings held by every existing Store,
\* which the badge computation reads, equal the global Settings, also for a
\* Store created by a message handled before the persisted Settings are loaded.
C32_StoreSettings ==
    \A t \in Tabs : stores[t] # NoStore => stores[t].settings = globalSettings

\* C33: a settings-set handled after the worker has started and before the
\* load of the persisted Settings completes is not lost: once startup has
\* finished the global Settings are the ones last set (which the local area
\* holds), not an older persisted value.
C33_NotLost ==
    loadPhase = "done" /\ localStorage # Undefined =>
        globalSettings = ValueOf(localStorage)

\* a list of mock definitions has an activated entry for op
C34_Active(list, op) ==
    \E i \in 1..Len(list) : list[i].operationName = op /\ list[i].activated

\* C34: every Snapshot posted while a mock-set is handled shows a mock table
\* that still has every operation that is activated both before and after the
\* mock-set: no partially rebuilt table is shown to an observer.
C34_Step ==
    IsMockSet(handled') /\ clock' = clock + 1 =>
        LET t == handled'.tabId
        IN  \A r \in Roles, op \in OperationNames :
                /\ C34_Active(MocksOf(stores, t), op)
                /\ C34_Active(MocksOf(stores', t), op)
                => \A i \in 1..Len(sent'[t][r]) :
                      C34_Active(sent'[t][r][i].msg.graphqlCustomResponses, op)

C34_NoPartialTable == [][C34_Step]_vars

\* C35: when the Coordinator handles a mock edit of the UI Surface (a save or
\* toggle, of the popup or of the pop-out editor, none of which deletes here),
\* the Store's table afterwards still has a definition for every name it
\* had: an edit for another name issued before, also one whose Snapshot the
\* Surface had not received, stays reflected.
C35_Step ==
    IsMockSet(handled') /\ clock' = clock + 1 =>
        \A k \in 1..Len(MocksOf(stores, UITab)) :
            \E i \in 1..Len(MocksOf(stores', UITab)) :
                MocksOf(stores', UITab)[i].operationName
                   = MocksOf(stores, UITab)[k].operationName

C35_BothEdits == [][C35_Step]_vars

\* the delay configured for an operation in the Hook's table (0 when unset)
C36_Configured(operationName) ==
    MapGet(customGraphQLResponses, operationName, NoEntry).delay

\* C36: a mocked call waits for the configured delay of its definition, and
\* for 0 when the delay is unset or 0: a mocked fetch waits only when the
\* delay is positive, and the timer of a mocked XHR send is set to the
\* configured delay.
C36_Step ==
    /\ \A f \in FetchIds :
          fetches[f].pc = "idle" /\ fetches'[f].pc = "mockWait" =>
              C36_Configured(fetches'[f].operationName) > 0
    /\ \A x \in XhrIds :
          xhrs[x].timer = Undefined /\ xhrs'[x].timer # Undefined =>
              ValueOf(xhrs'[x].timer).mockDelay
                 = C36_Configured(ValueOf(xhrs'[x].timer).operationName)

C36_ConfiguredDelay == [][C36_Step]_vars

\* how often a handler is invoked in a sequence of events
C37_Count(events, h) == Cardinality({i \in 1..Len(events) : events[i] = h})

\* C37: when the timer of a mocked XHR call fires, the capture is posted
\* first, the handlers are invoked in the order readystatechange, load,
\* loadend, and every handler the page registered for load or loadend, as a
\* property handler or as a listener, is invoked exactly once.
C37_Step ==
    \A x \in XhrIds :
        xhrs[x].timer # Undefined /\ xhrs'[x].timer = Undefined =>
            /\ call'.events # <<>> /\ call'.events[1] = "capture"
            /\ \A i, j \in 2..Len(call'.events) :
                  /\ i < j /\ call'.events[j] = "onreadystatechange"
                     => call'.events[i] = "onreadystatechange"
                  /\ i < j /\ call'.events[i] \in {"onloadend", "loadend"}
                     => call'.events[j] \in {"onloadend", "loadend"}
            /\ \A h \in xhrs[x].handlers \ {"onreadystatechange"} :
                  C37_Count(call'.events, h) = 1

C37_MockedEvents == [][C37_Step]_vars

\* C38: when the Coordinator handles a capture, a mock-set, a clear-all or a
\* snapshot request for a tab, the Store of every other tab is what it was
\* (its captured responses and its mock table with it) and nothing is posted
\* on a connection registered for another tab.
C38_Step ==
    /\ IsIntent(handled') /\ clock' = clock + 1
    /\ handled'.message.msg.type # "settings-update"
    => \A u \in Tabs \ {handled'.tabId} :
          /\ stores'[u] = stores[u]
          /\ \A r \in Roles : sent'[u][r] = <<>>

C38_Isolated == [][C38_Step]_vars

\* a clear-all was handled for a tab and answered to its connection while the
\* other tab has a Store with a mock and a registered connection
C38_Witness ==
    /\ IsIntent(handled) /\ handled.message.msg.type = "clear-all"
    /\ \E r \in Roles : sent[handled.tabId][r] # <<>>
    /\ \E u \in Tabs \ {handled.tabId} :
          /\ MocksOf(stores, u) # <<>>
          /\ \E r \in Roles : ports[u][r] # NoPort

\* nothing is on its way between the Coordinator, the content script and the
\* Hook, and no change of the session area is still to be reported
C39_Quiet ==
    /\ bridge.inbox = <<>> /\ bridge.emitted = <<>> /\ bridge.posted = <<>>
    /\ ~bridge.changed

\* the Hook's table has the Store's mocks: the same names in the same order,
\* each with the Store's body and activation
C39_SameTable ==
    /\ Len(customGraphQLResponses) = Len(MocksOf(stores, 1))
    /\ \A i \in 1..Len(customGraphQLResponses) :
          /\ customGraphQLResponses[i].key = MocksOf(stores, 1)[i].operationName
          /\ customGraphQLResponses[i].val.response = MocksOf(stores, 1)[i].customResponse
          /\ customGraphQLResponses[i].val.activated = MocksOf(stores, 1)[i].activated

\* C39: once the Coordinator has handled the mock-sets, settings-sets and
\* clear-alls of a tab whose content script is connected and everything on
\* its way has been delivered, the Hook's table is the Store's mock table and
\* the Hook's Settings mirror is the global Settings.
C39_InSync ==
    C39_Quiet /\ stores[1] # NoStore => C39_SameTable /\ mockerSettings = globalSettings

\* a mock-set and a settings-set have been handled and delivered: the Hook
\* holds the mock for GetUser and has global mocking turned off
C39_Witness ==
    /\ C39_Quiet /\ stores[1] # NoStore
    /\ Len(customGraphQLResponses) = 1
    /\ customGraphQLResponses[1].key = "GetUser"
    /\ ~mockerSettings.globalMockEnabled
    /\ ~globalSettings.globalMockEnabled

\* nothing is in flight between the Coordinator, the content script and the page
C40_NoneInFlight ==
    /\ ~bridge.changed
    /\ bridge.posted = <<>> /\ bridge.inbox = <<>> /\ bridge.emitted = <<>>

\* C40: once the popup's traffic has stopped, the system comes to rest with no
\* message in flight and stays there: the snapshot request the content script
\* sends on a change of the session area and the Coordinator's write after
\* every datastore message do not keep each other going
C40_Settles == <>[]C40_NoneInFlight

\* at rest after a request of the content script that a change of the session
\* area made it send, handled after a mutation of the popup
C40_Witness ==
    /\ C40_NoneInFlight
    /\ clock >= 2
    /\ handled.op = "onMessage"
    /\ handled.message = SnapshotRequest
    /\ stores[1] # NoStore /\ Len(MocksOf(stores, 1)) = 1

====
